---- MODULE Spec2Model ----
(***************************************************************************)
(* Model of the accounting-reports backend (src/backend): the SQLite       *)
(* store created by database.py, the ingestion pipeline of                 *)
(* excel_parser.py and the HTTP handlers of app.py.                        *)
(*                                                                         *)
(* The store is one record, db, with one field per table (a set of rows),  *)
(* the AUTOINCREMENT counters (seq) and the set of tables that exist.      *)
(* A handler that runs its statements on one connection and commits at     *)
(* the end is one action: it either installs the new store (commit) or     *)
(* leaves db alone (close without commit, which rolls back).               *)
(* The autoincrement id column of the fact tables that carry a UNIQUE key  *)
(* is left out of their rows: no statement of the program reads it.        *)
(***************************************************************************)
EXTENDS Integers, Sequences, FiniteSets, TLC

VARIABLES
    db,      \* the SQLite store (sales_report.db)
    clock,   \* datetime.now() as seen by create_upload_record
    cache,   \* the module-level caches of excel_parser.py
    run,     \* the ingestion run in progress (process_excel_file)
    resp     \* the last HTTP response sent

vars == <<db, clock, cache, run, resp>>

-----------------------------------------------------------------------------
(* Bounds of the model.                                                    *)

MaxUploads == 2      \* ingestion runs started
MaxRows == 1         \* rows per sheet of a workbook
MaxCategories == 2   \* product_categories rows ever inserted
MaxProducts == 2     \* products rows ever inserted

-----------------------------------------------------------------------------
(* Values.                                                                 *)

None == "None"

MONTH_ORDER ==
    <<"January", "February", "March", "April", "May", "June",
      "July", "August", "September", "October", "November", "December">>

MonthShortNames ==
    <<"Jan", "Feb", "Mar", "Apr", "May", "Jun",
      "Jul", "Aug", "Sep", "Oct", "Nov", "Dec">>

\* The months table: seeded by init_database, never written afterwards.
months ==
    { [id |-> i, name |-> MONTH_ORDER[i], short_name |-> MonthShortNames[i],
       month_number |-> i] : i \in 1..12 }

\* MONTH_MAP as its set of (token, month name, year) entries.
MONTH_MAP ==
    { <<MonthShortNames[i] \o "'" \o yy[1], MONTH_ORDER[i], yy[2]>> :
        i \in 1..12, yy \in {<<"24", 2024>>, <<"25", 2025>>} }

SHORT_MONTH_MAP ==
    { <<MonthShortNames[i], MONTH_ORDER[i]>> : i \in 1..12 }

\* A numeric spreadsheet cell: a number, a text or empty.
NumCell(n) == [t |-> "num", n |-> n, s |-> ""]
TextCell(s) == [t |-> "str", n |-> 0, s |-> s]
EmptyCell == [t |-> "none", n |-> 0, s |-> ""]

\* str.strip() and SQL LOWER() on the texts of the model.
Strip(s) ==
    CASE s = "  " -> ""
      [] s = " Bev " -> "Bev"
      [] OTHER -> s

Lower(s) ==
    CASE s = "Bev" -> "bev"
      [] s = "Snk" -> "snk"
      [] s = "Uncategorized" -> "uncategorized"
      [] s = "A" -> "a"
      [] s = "B" -> "b"
      [] OTHER -> s

-----------------------------------------------------------------------------
(* The store.                                                              *)

\* The tables init_database creates. cost_data is not among them.
SchemaTables ==
    {"file_uploads", "years", "months", "product_categories", "products",
     "working_days", "budget_projection", "sales_data", "production_data",
     "sales_by_fpr"}

FactTables ==
    {"working_days", "budget_projection", "sales_data", "production_data",
     "sales_by_fpr", "cost_data"}

\* init_database on a database file: CREATE TABLE IF NOT EXISTS keeps what the
\* file already holds, so `existing` are the tables found beside the schema.
init_database(existing) ==
    [file_uploads |-> {}, years |-> {}, product_categories |-> {},
     products |-> {}, working_days |-> {}, budget_projection |-> {},
     sales_data |-> {}, production_data |-> {}, sales_by_fpr |-> {},
     cost_data |-> {},
     tables |-> SchemaTables \cup existing,
     seq |-> [file_uploads |-> 0, years |-> 0, product_categories |-> 0,
              products |-> 0, sales_by_fpr |-> 0]]

\* Rows of a fact table of the store.
Rows(d, table) ==
    CASE table = "working_days" -> d.working_days
      [] table = "budget_projection" -> d.budget_projection
      [] table = "sales_data" -> d.sales_data
      [] table = "production_data" -> d.production_data
      [] table = "sales_by_fpr" -> d.sales_by_fpr
      [] table = "cost_data" -> d.cost_data

\* Rows of the three fact tables that carry a product_id.
ProductFacts(d) == d.sales_data \cup d.budget_projection \cup d.production_data

\* A response to a request that is no report, or an error response.
Reply(op, status) ==
    [op |-> op, status |-> status, upload_id |-> 0, used |-> {}, body |-> {}]

NoResponse == Reply("none", 0)

Idle ==
    [pc |-> "idle", upload_id |-> 0, sheets |-> {}, sheets_processed |-> <<>>,
     all_months |-> {}, pending |-> {}, errors |-> {}]

EmptyCache == [year |-> <<>>, month |-> <<>>, category |-> <<>>, product |-> <<>>]

Init ==
    /\ \E existing \in {{}, {"cost_data"}} : db = init_database(existing)
    /\ clock = 0
    /\ cache = EmptyCache
    /\ run = Idle
    /\ resp = NoResponse

-----------------------------------------------------------------------------
(* Maintenance endpoints (app.py). Each handler is one connection and one  *)
(* transaction.                                                            *)

\* Texts a client sends as a category name / a product name ("" stands for a
\* missing or empty field).
CategoryNameInputs == {"", "  ", "Bev", " Bev ", "Snk"}
ProductNameInputs == {"", "  ", "A", "B"}

\* Ids a client names in a path or a body: every id ever given out, and one more.
CategoryIdInputs == 1..(MaxCategories + 1)
ProductIdInputs == 1..(MaxProducts + 1)

\* POST /api/product-categories
create_product_category(name_raw) ==
    LET name == Strip(name_raw)
        id == db.seq.product_categories + 1
    IN  /\ run.pc = "idle"
        /\ IF name_raw = "" \/ name = ""
           THEN /\ resp' = Reply("create_product_category", 400)
                /\ UNCHANGED db
           ELSE IF \E c \in db.product_categories : Lower(c.name) = Lower(name)
           THEN /\ resp' = Reply("create_product_category", 409)
                /\ UNCHANGED db
           ELSE /\ id <= MaxCategories
                /\ db' = [db EXCEPT
                             !.product_categories = @ \cup {[id |-> id, name |-> name]},
                             !.seq.product_categories = id]
                /\ resp' = Reply("create_product_category", 201)
        /\ UNCHANGED <<clock, cache, run>>

\* PUT /api/product-categories/<category_id>
update_product_category(category_id, name_raw) ==
    LET name == Strip(name_raw)
    IN  /\ run.pc = "idle"
        /\ IF name_raw = "" \/ name = ""
           THEN /\ resp' = Reply("update_product_category", 400)
                /\ UNCHANGED db
           ELSE IF ~\E c \in db.product_categories : c.id = category_id
           THEN /\ resp' = Reply("update_product_category", 404)
                /\ UNCHANGED db
           ELSE IF \E c \in db.product_categories :
                      Lower(c.name) = Lower(name) /\ c.id # category_id
           THEN /\ resp' = Reply("update_product_category", 409)
                /\ UNCHANGED db
           ELSE /\ db' = [db EXCEPT !.product_categories =
                             { IF c.id = category_id THEN [c EXCEPT !.name = name] ELSE c
                               : c \in @ }]
                /\ resp' = Reply("update_product_category", 200)
        /\ UNCHANGED <<clock, cache, run>>

\* Faulty variant: the product count is not looked at.
delete_product_category_unchecked(category_id) ==
    /\ run.pc = "idle"
    /\ IF ~\E c \in db.product_categories : c.id = category_id
       THEN /\ resp' = Reply("delete_product_category", 404)
            /\ UNCHANGED db
       ELSE /\ db' = [db EXCEPT !.product_categories =
                         {c \in @ : c.id # category_id}]
            /\ resp' = Reply("delete_product_category", 200)
    /\ UNCHANGED <<clock, cache, run>>

\* DELETE /api/product-categories/<category_id>
delete_product_category(category_id) ==
    LET product_count == Cardinality({p \in db.products : p.category_id = category_id})
    IN  /\ run.pc = "idle"
        /\ IF ~\E c \in db.product_categories : c.id = category_id
           THEN /\ resp' = Reply("delete_product_category", 404)
                /\ UNCHANGED db
           ELSE IF product_count > 0
           THEN /\ resp' = Reply("delete_product_category", 409)
                /\ UNCHANGED db
           ELSE /\ db' = [db EXCEPT !.product_categories =
                             {c \in @ : c.id # category_id}]
                /\ resp' = Reply("delete_product_category", 200)
        /\ UNCHANGED <<clock, cache, run>>

\* POST /api/products
create_product(name_raw, category_id) ==
    LET name == Strip(name_raw)
        id == db.seq.products + 1
    IN  /\ run.pc = "idle"
        /\ IF name = ""
           THEN /\ resp' = Reply("create_product", 400)
                /\ UNCHANGED db
           ELSE IF category_id = 0
           THEN /\ resp' = Reply("create_product", 400)
                /\ UNCHANGED db
           ELSE IF ~\E c \in db.product_categories : c.id = category_id
           THEN /\ resp' = Reply("create_product", 404)
                /\ UNCHANGED db
           ELSE IF \E p \in db.products :
                      Lower(p.name) = Lower(name) /\ p.category_id = category_id
           THEN /\ resp' = Reply("create_product", 409)
                /\ UNCHANGED db
           ELSE /\ id <= MaxProducts
                /\ db' = [db EXCEPT
                             !.products = @ \cup
                                 {[id |-> id, category_id |-> category_id,
                                   sub_category |-> None, name |-> name,
                                   type_of_sales |-> None]},
                             !.seq.products = id]
                /\ resp' = Reply("create_product", 201)
        /\ UNCHANGED <<clock, cache, run>>

\* The UPDATE statement of update_product: the row with the fields of `data`
\* that are present replaced.
UpdatedProduct(p, data) ==
    [p EXCEPT !.name = IF data.has_name THEN Strip(data.name) ELSE @,
              !.category_id = IF data.has_category_id THEN data.category_id ELSE @]

\* UNIQUE(name, category_id) of the products table.
ProductsUnique(products) ==
    \A p, q \in products :
        (p.name = q.name /\ p.category_id = q.category_id) => p.id = q.id

\* PUT /api/products/<product_id>. There is no duplicate check: a duplicate is
\* stopped by the UNIQUE constraint, and the handler answers its exception.
update_product(product_id, data) ==
    LET updated == { IF p.id = product_id THEN UpdatedProduct(p, data) ELSE p
                     : p \in db.products }
    IN  /\ run.pc = "idle"
        /\ IF ~data.has_name /\ ~data.has_category_id
           THEN /\ resp' = Reply("update_product", 400)      \* `if not data`
                /\ UNCHANGED db
           ELSE IF ~\E p \in db.products : p.id = product_id
           THEN /\ resp' = Reply("update_product", 404)
                /\ UNCHANGED db
           ELSE IF data.has_name /\ Strip(data.name) = ""
           THEN /\ resp' = Reply("update_product", 400)
                /\ UNCHANGED db
           ELSE IF data.has_category_id
                   /\ ~\E c \in db.product_categories : c.id = data.category_id
           THEN /\ resp' = Reply("update_product", 404)
                /\ UNCHANGED db
           ELSE IF ~ProductsUnique(updated)
           THEN /\ resp' = Reply("update_product", 500)
                /\ UNCHANGED db
           ELSE /\ db' = [db EXCEPT !.products = updated]
                /\ resp' = Reply("update_product", 200)
        /\ UNCHANGED <<clock, cache, run>>

\* Request bodies of update_product: name and category_id are each present or
\* not; the body without either is the empty body.
ProductUpdates ==
    { [has_name |-> TRUE, name |-> n, has_category_id |-> FALSE, category_id |-> 0] :
        n \in ProductNameInputs \ {""} }
    \cup
    { [has_name |-> FALSE, name |-> "", has_category_id |-> TRUE, category_id |-> c] :
        c \in CategoryIdInputs }
    \cup
    { [has_name |-> TRUE, name |-> n, has_category_id |-> TRUE, category_id |-> c] :
        n \in ProductNameInputs \ {""}, c \in CategoryIdInputs }
    \cup
    { [has_name |-> FALSE, name |-> "", has_category_id |-> FALSE, category_id |-> 0] }

\* Faulty variant: only the sales_data references are counted.
delete_product_counting_sales(product_id) ==
    LET total_refs == Cardinality({r \in db.sales_data : r.product_id = product_id})
    IN  /\ run.pc = "idle"
        /\ IF ~\E p \in db.products : p.id = product_id
           THEN /\ resp' = Reply("delete_product", 404)
                /\ UNCHANGED db
           ELSE IF total_refs > 0
           THEN /\ resp' = Reply("delete_product", 409)
                /\ UNCHANGED db
           ELSE /\ db' = [db EXCEPT !.products = {p \in @ : p.id # product_id}]
                /\ resp' = Reply("delete_product", 200)
        /\ UNCHANGED <<clock, cache, run>>

\* DELETE /api/products/<product_id>
delete_product(product_id) ==
    LET sales_count == Cardinality({r \in db.sales_data : r.product_id = product_id})
        production_count ==
            Cardinality({r \in db.production_data : r.product_id = product_id})
        budget_count ==
            Cardinality({r \in db.budget_projection : r.product_id = product_id})
        total_refs == sales_count + production_count + budget_count
    IN  /\ run.pc = "idle"
        /\ IF ~\E p \in db.products : p.id = product_id
           THEN /\ resp' = Reply("delete_product", 404)
                /\ UNCHANGED db
           ELSE IF total_refs > 0
           THEN /\ resp' = Reply("delete_product", 409)
                /\ UNCHANGED db
           ELSE /\ db' = [db EXCEPT !.products = {p \in @ : p.id # product_id}]
                /\ resp' = Reply("delete_product", 200)
        /\ UNCHANGED <<clock, cache, run>>

-----------------------------------------------------------------------------
(* Entity resolver and caches (excel_parser.py). An id of 0 stands for     *)
(* Python's None: AUTOINCREMENT ids start at 1 and the code tests ids for  *)
(* truth only.                                                             *)

NoId == 0

reset_caches == EmptyCache

\* preload_caches adds every reference row of the store to the caches ch.
preload_caches(ch, d) ==
    [month |-> [n \in {m.name : m \in months} |->
                   (CHOOSE m \in months : m.name = n).id] @@ ch.month,
     year |-> [y \in {r.year : r \in d.years} |->
                   (CHOOSE r \in d.years : r.year = y).id] @@ ch.year,
     category |-> [n \in {r.name : r \in d.product_categories} |->
                   (CHOOSE r \in d.product_categories : r.name = n).id]
                  @@ ch.category,
     product |-> [k \in {<<r.name, r.category_id>> : r \in d.products} |->
                   (CHOOSE r \in d.products : <<r.name, r.category_id>> = k).id]
                 @@ ch.product]

safe_float(val) == IF val.t = "num" THEN val.n ELSE 0

\* Faulty variant: no strip(), a text of blanks is a name.
safe_str_unstripped(val, default) == IF val = None THEN default ELSE val

\* safe_str of a text cell (None for an empty cell).
safe_str(val, default) ==
    IF val = None THEN default
    ELSE IF Strip(val) = "" THEN default ELSE Strip(val)

parse_month(month_str) ==
    IF \E e \in MONTH_MAP : e[1] = month_str
    THEN LET e == CHOOSE e \in MONTH_MAP : e[1] = month_str IN <<e[2], e[3]>>
    ELSE <<None, None>>

get_month_id(c, month_name) ==
    IF month_name \in DOMAIN c.month THEN c.month[month_name] ELSE NoId

\* The three get-or-create resolvers take a record with the fields db and cache
\* (and maybe more) and return it with both updated, and the id in field id.
get_or_create_year(c, year) ==
    IF year \in DOMAIN c.cache.year
    THEN [db |-> c.db, cache |-> c.cache, id |-> c.cache.year[year]]
    ELSE IF \E y \in c.db.years : y.year = year
    THEN LET id == (CHOOSE y \in c.db.years : y.year = year).id
         IN  [db |-> c.db,
              cache |-> [c.cache EXCEPT !.year = (year :> id) @@ @],
              id |-> id]
    ELSE LET id == c.db.seq.years + 1
         IN  [db |-> [c.db EXCEPT !.years = @ \cup {[id |-> id, year |-> year]},
                                  !.seq.years = id],
              cache |-> [c.cache EXCEPT !.year = (year :> id) @@ @],
              id |-> id]

get_or_create_category(c, category_name_raw) ==
    LET category_name ==
            IF category_name_raw = "" THEN "Uncategorized" ELSE category_name_raw
    IN  IF category_name \in DOMAIN c.cache.category
        THEN [db |-> c.db, cache |-> c.cache, id |-> c.cache.category[category_name]]
        ELSE IF \E r \in c.db.product_categories : r.name = category_name
        THEN LET id == (CHOOSE r \in c.db.product_categories :
                            r.name = category_name).id
             IN  [db |-> c.db,
                  cache |-> [c.cache EXCEPT !.category = (category_name :> id) @@ @],
                  id |-> id]
        ELSE LET id == c.db.seq.product_categories + 1
             IN  [db |-> [c.db EXCEPT
                              !.product_categories =
                                  @ \cup {[id |-> id, name |-> category_name]},
                              !.seq.product_categories = id],
                  cache |-> [c.cache EXCEPT !.category = (category_name :> id) @@ @],
                  id |-> id]

get_or_create_product(c, product_name, category_id, sub_category, type_of_sales) ==
    LET cache_key == <<product_name, category_id>>
    IN  IF product_name = ""
        THEN [db |-> c.db, cache |-> c.cache, id |-> NoId]
        ELSE IF cache_key \in DOMAIN c.cache.product
        THEN [db |-> c.db, cache |-> c.cache, id |-> c.cache.product[cache_key]]
        ELSE IF \E r \in c.db.products :
                   r.name = product_name /\ r.category_id = category_id
        THEN LET id == (CHOOSE r \in c.db.products :
                            r.name = product_name /\ r.category_id = category_id).id
             IN  [db |-> c.db,
                  cache |-> [c.cache EXCEPT !.product = (cache_key :> id) @@ @],
                  id |-> id]
        ELSE LET id == c.db.seq.products + 1
             IN  [db |-> [c.db EXCEPT
                              !.products = @ \cup
                                  {[id |-> id, category_id |-> category_id,
                                    sub_category |-> sub_category,
                                    name |-> product_name,
                                    type_of_sales |-> type_of_sales]},
                              !.seq.products = id],
                  cache |-> [c.cache EXCEPT !.product = (cache_key :> id) @@ @],
                  id |-> id]

-----------------------------------------------------------------------------
(* Upload records (database.py).                                           *)

\* A TEXT column that holds a JSON list: NULL, or the list json.dumps wrote.
Null == [null |-> TRUE, items |-> <<>>]
json_dumps(list) == [null |-> FALSE, items |-> list]
json_loads(text) == text.items

create_upload_record(d, filename, now) ==
    LET id == d.seq.file_uploads + 1
    IN  [d EXCEPT !.file_uploads = @ \cup
                      {[id |-> id, filename |-> filename, uploaded_date |-> now,
                        sheets_processed |-> Null, months_years_processed |-> Null,
                        is_successful |-> 0, error_message |-> None]},
                  !.seq.file_uploads = id]

\* Faulty variant: the UPDATE without its WHERE clause.
update_every_upload_success(d, upload_id, sheets_processed, months_years_processed) ==
    [d EXCEPT !.file_uploads =
        { [u EXCEPT !.is_successful = 1,
                    !.sheets_processed = json_dumps(sheets_processed),
                    !.months_years_processed = json_dumps(months_years_processed)]
          : u \in @ }]

update_upload_success(d, upload_id, sheets_processed, months_years_processed) ==
    [d EXCEPT !.file_uploads =
        { IF u.id = upload_id
          THEN [u EXCEPT !.is_successful = 1,
                         !.sheets_processed = json_dumps(sheets_processed),
                         !.months_years_processed = json_dumps(months_years_processed)]
          ELSE u : u \in @ }]

update_upload_error(d, upload_id, error_message) ==
    [d EXCEPT !.file_uploads =
        { IF u.id = upload_id
          THEN [u EXCEPT !.is_successful = 0, !.error_message = error_message]
          ELSE u : u \in @ }]

\* get_upload_history: every upload record, newest first.
RECURSIVE NewestFirst(_)
NewestFirst(uploads) ==
    IF uploads = {} THEN <<>>
    ELSE LET u == CHOOSE u \in uploads :
                      \A v \in uploads : v.uploaded_date <= u.uploaded_date
         IN  <<u>> \o NewestFirst(uploads \ {u})

get_upload_history(d) ==
    LET row(u) ==
            [id |-> u.id, filename |-> u.filename, uploaded_date |-> u.uploaded_date,
             sheets_processed |->
                 IF u.sheets_processed.null THEN <<>>
                 ELSE json_loads(u.sheets_processed),
             months_years_processed |->
                 IF u.months_years_processed.null THEN <<>>
                 ELSE json_loads(u.months_years_processed),
             is_successful |-> (u.is_successful # 0),
             error_message |-> u.error_message]
        sorted == NewestFirst(d.file_uploads)
    IN  [i \in 1..Len(sorted) |-> row(sorted[i])]

-----------------------------------------------------------------------------
(* Sheet normalizers (excel_parser.py). A normalizer walks the rows of its *)
(* sheet with a record c = [db, cache, batch, months_set]: the resolvers   *)
(* commit their inserts at once (c.db), the fact rows are collected in     *)
(* c.batch and written by one INSERT at the end. A period "July 2025" of   *)
(* months_set is the pair <<"July", 2025>>.                                *)

KeyOf(row, fields) == [i \in 1..Len(fields) |-> row[fields[i]]]

\* INSERT OR REPLACE of a batch into a table with a UNIQUE key.
RECURSIVE InsertOrReplace(_, _, _)
InsertOrReplace(table, batch, fields) ==
    IF batch = <<>> THEN table
    ELSE InsertOrReplace(
             {r \in table : KeyOf(r, fields) # KeyOf(Head(batch), fields)}
                 \cup {Head(batch)},
             Tail(batch), fields)

Resolved(c, r) == [c EXCEPT !.db = r.db, !.cache = r.cache]

StartSheet(d, ch) == [db |-> d, cache |-> ch, batch |-> <<>>, months_set |-> {}]

RECURSIVE working_days_rows(_, _, _)
working_days_rows(c, rows, upload_id) ==
    IF rows = <<>> THEN c
    ELSE LET row == Head(rows)
             pm == parse_month(row.Months)
         IN  IF pm[1] = None
             THEN working_days_rows(c, Tail(rows), upload_id)
             ELSE LET y == get_or_create_year(c, pm[2])
                      month_id == get_month_id(y.cache, pm[1])
                      c1 == Resolved(c, y)
                  IN  IF month_id # NoId
                      THEN working_days_rows(
                               [c1 EXCEPT
                                   !.batch = Append(@,
                                       [upload_id |-> upload_id, year_id |-> y.id,
                                        month_id |-> month_id,
                                        days |-> safe_float(row.Days_in_months)]),
                                   !.months_set = @ \cup {<<pm[1], pm[2]>>}],
                               Tail(rows), upload_id)
                      ELSE working_days_rows(c1, Tail(rows), upload_id)

process_working_days(d, ch, rows, upload_id) ==
    working_days_rows(StartSheet(d, ch), rows, upload_id)

\* "'25" in str(h) and "." not in str(h), on the header texts of the model.
HasQuote25(h) == h \in {"Jul'25", "Jul'25.1", "Total'25"}
HasDot(h) == h \in {"Jul'25.1"}

RECURSIVE SelectMonthColumns(_)
SelectMonthColumns(headers) ==
    IF headers = <<>> THEN <<>>
    ELSE (IF HasQuote25(Head(headers)) /\ ~HasDot(Head(headers))
          THEN <<Head(headers)>> ELSE <<>>) \o SelectMonthColumns(Tail(headers))

RECURSIVE sales_projection_columns(_, _, _, _, _)
sales_projection_columns(c, row, month_columns, upload_id, product_id) ==
    IF month_columns = <<>> THEN c
    ELSE LET month_col == Head(month_columns)
             pm == parse_month(month_col)
         IN  IF pm[1] = None
             THEN sales_projection_columns(c, row, Tail(month_columns), upload_id,
                                           product_id)
             ELSE LET y == get_or_create_year(c, pm[2])
                      month_id == get_month_id(y.cache, pm[1])
                      c1 == Resolved(c, y)
                  IN  sales_projection_columns(
                          IF month_id # NoId
                          THEN [c1 EXCEPT
                                   !.batch = Append(@,
                                       [upload_id |-> upload_id, year_id |-> y.id,
                                        month_id |-> month_id,
                                        product_id |-> product_id,
                                        quantity |-> safe_float(row.cells[month_col])]),
                                   !.months_set = @ \cup {<<pm[1], pm[2]>>}]
                          ELSE c1,
                          row, Tail(month_columns), upload_id, product_id)

\* safe_str(x) or None
OrNone(s) == IF s = "" THEN None ELSE s

RECURSIVE sales_projection_rows(_, _, _, _)
sales_projection_rows(c, rows, month_columns, upload_id) ==
    IF rows = <<>> THEN c
    ELSE LET row == Head(rows)
             product_name == safe_str(row.Products, "")
         IN  IF product_name = ""
             THEN sales_projection_rows(c, Tail(rows), month_columns, upload_id)
             ELSE LET cat == get_or_create_category(c, safe_str(row.Product_Category, ""))
                      c1 == Resolved(c, cat)
                      prod == get_or_create_product(c1, product_name, cat.id,
                                  OrNone(safe_str(row.Product_Category_2, "")),
                                  OrNone(safe_str(row.Type_of_Sales, "")))
                      c2 == Resolved(c1, prod)
                  IN  IF prod.id = NoId
                      THEN sales_projection_rows(c2, Tail(rows), month_columns, upload_id)
                      ELSE sales_projection_rows(
                               sales_projection_columns(c2, row, month_columns,
                                                        upload_id, prod.id),
                               Tail(rows), month_columns, upload_id)

process_sales_projection(d, ch, rows, headers, upload_id) ==
    sales_projection_rows(StartSheet(d, ch), rows, SelectMonthColumns(headers),
                          upload_id)

\* Faulty variant: every source row gets an entry of its own.
AggregatePerRow(aggregated, key, row, cells) ==
    (Append(key, Cardinality(DOMAIN aggregated)) :>
        [i \in 1..Len(cells) |-> safe_float(row[cells[i]])]) @@ aggregated

\* The in-memory aggregation of process_sales_data and process_production_data:
\* c.batch is the dict `aggregated`, a function from (year_id, month_id,
\* product_id) to the list of sums; `cells` lists the summed columns.
Aggregate(aggregated, key, row, cells) ==
    LET old == IF key \in DOMAIN aggregated THEN aggregated[key]
               ELSE [i \in 1..Len(cells) |-> 0]
    IN  (key :> [i \in 1..Len(cells) |-> old[i] + safe_float(row[cells[i]])])
            @@ aggregated

RECURSIVE aggregate_rows(_, _, _)
aggregate_rows(c, rows, cells) ==
    IF rows = <<>> THEN c
    ELSE LET row == Head(rows)
             pm == parse_month(row.Month)
             product_name == safe_str(row.Products, "")
         IN  IF pm[1] = None \/ product_name = ""
             THEN aggregate_rows(c, Tail(rows), cells)
             ELSE LET y == get_or_create_year(c, pm[2])
                      c1 == Resolved(c, y)
                      month_id == get_month_id(c1.cache, pm[1])
                      cat == get_or_create_category(c1, safe_str(row.Product_Category, ""))
                      c2 == Resolved(c1, cat)
                      prod == get_or_create_product(c2, product_name, cat.id,
                                  OrNone(safe_str(row.Product_Category_2, "")),
                                  OrNone(safe_str(row.Type_of_Sales, "")))
                      c3 == Resolved(c2, prod)
                  IN  IF month_id = NoId \/ prod.id = NoId
                      THEN aggregate_rows(c3, Tail(rows), cells)
                      ELSE aggregate_rows(
                               [c3 EXCEPT
                                   !.batch = Aggregate(@, <<y.id, month_id, prod.id>>,
                                                       row, cells),
                                   !.months_set = @ \cup {<<pm[1], pm[2]>>}],
                               Tail(rows), cells)

SalesCells ==
    <<"Qty_Budget", "Amount_Budget", "Qty_Actual", "Amount_Actual",
      "Qty_in_Liters_Budgeted", "Qty_in_Liters">>

ProductionCells ==
    <<"Qty_Budgeted", "Qty_Budgeted_In_Ltrs", "Qty_Actual", "Qty_in_Liters">>

\* The rows process_sales_data inserts: one per key of `aggregated`.
SalesBatch(aggregated, upload_id) ==
    { [upload_id |-> upload_id, year_id |-> k[1], month_id |-> k[2],
       product_id |-> k[3],
       qty_budget |-> aggregated[k][1], amount_budget |-> aggregated[k][2],
       qty_actual |-> aggregated[k][3], amount_actual |-> aggregated[k][4],
       qty_liters_budget |-> aggregated[k][5],
       qty_liters_actual |-> aggregated[k][6]] : k \in DOMAIN aggregated }

ProductionBatch(aggregated, upload_id) ==
    { [upload_id |-> upload_id, year_id |-> k[1], month_id |-> k[2],
       product_id |-> k[3],
       qty_budget |-> aggregated[k][1], qty_budget_liters |-> aggregated[k][2],
       qty_actual |-> aggregated[k][3], qty_actual_liters |-> aggregated[k][4]]
      : k \in DOMAIN aggregated }

process_sales_data(d, ch, rows, upload_id) ==
    LET c == aggregate_rows(StartSheet(d, ch), rows, SalesCells)
    IN  [c EXCEPT !.batch = SalesBatch(c.batch, upload_id)]

process_production_data(d, ch, rows, upload_id) ==
    LET c == aggregate_rows(StartSheet(d, ch), rows, ProductionCells)
    IN  [c EXCEPT !.batch = ProductionBatch(c.batch, upload_id)]

\* process_sales_by_fpr: int(year) of a text that is no number raises; the
\* field raised tells it, and the rows walked before it keep their effects.
RECURSIVE sales_by_fpr_rows(_, _, _)
sales_by_fpr_rows(c, rows, upload_id) ==
    IF rows = <<>> \/ c.raised THEN c
    ELSE LET row == Head(rows)
             year == row.Year
             month_short == row.Month
         IN  IF year.t = "none" \/ month_short = None
             THEN sales_by_fpr_rows(c, Tail(rows), upload_id)
             ELSE IF ~\E e \in SHORT_MONTH_MAP : e[1] = month_short
             THEN sales_by_fpr_rows(c, Tail(rows), upload_id)
             ELSE IF year.t # "num"
             THEN [c EXCEPT !.raised = TRUE]
             ELSE LET month_name == (CHOOSE e \in SHORT_MONTH_MAP : e[1] = month_short)[2]
                      y == get_or_create_year(c, year.n)
                      c1 == Resolved(c, y)
                      month_id == get_month_id(c1.cache, month_name)
                  IN  IF month_id = NoId
                      THEN sales_by_fpr_rows(c1, Tail(rows), upload_id)
                      ELSE sales_by_fpr_rows(
                               [c1 EXCEPT
                                   !.batch = Append(@,
                                       [upload_id |-> upload_id, year_id |-> y.id,
                                        month_id |-> month_id,
                                        salesman |-> safe_str(row.SalesMan, "Unknown"),
                                        location |-> safe_str(row.Location, "Unknown"),
                                        type_of_sales |->
                                            safe_str(row.Type_of_sales, "Unknown"),
                                        amount |-> safe_float(row.Amount)]),
                                   !.months_set = @ \cup {<<month_name, year.n>>}],
                               Tail(rows), upload_id)

process_sales_by_fpr(d, ch, rows, upload_id) ==
    sales_by_fpr_rows([db |-> d, cache |-> ch, batch |-> <<>>, months_set |-> {},
                       raised |-> FALSE], rows, upload_id)

\* INSERT INTO sales_by_fpr: the table has no UNIQUE key, each row gets its id.
RECURSIVE InsertFpr(_, _)
InsertFpr(d, batch) ==
    IF batch = <<>> THEN d
    ELSE LET id == d.seq.sales_by_fpr + 1
         IN  InsertFpr([d EXCEPT !.sales_by_fpr =
                                     @ \cup {[id |-> id] @@ Head(batch)},
                                 !.seq.sales_by_fpr = id],
                       Tail(batch))

RECURSIVE cost_rows_loop(_, _, _)
cost_rows_loop(c, cost_rows, upload_id) ==
    IF cost_rows = <<>> THEN c
    ELSE LET row == Head(cost_rows)
             month_cell == row[1]
             pm == parse_month(month_cell)
         IN  IF month_cell = None \/ month_cell = "" \/ pm[1] = None
             THEN cost_rows_loop(c, Tail(cost_rows), upload_id)
             ELSE LET y == get_or_create_year(c, pm[2])
                      c1 == Resolved(c, y)
                      month_id == get_month_id(c1.cache, pm[1])
                  IN  IF month_id # NoId
                      THEN cost_rows_loop(
                               [c1 EXCEPT
                                   !.batch = Append(@,
                                       [upload_id |-> upload_id, year_id |-> y.id,
                                        month_id |-> month_id,
                                        fuel |-> safe_float(row[2]),
                                        lec |-> safe_float(row[3])]),
                                   !.months_set = @ \cup {<<pm[1], pm[2]>>}],
                               Tail(cost_rows), upload_id)
                      ELSE cost_rows_loop(c1, Tail(cost_rows), upload_id)

process_cost_data(d, ch, cost_rows, upload_id) ==
    cost_rows_loop(StartSheet(d, ch), cost_rows, upload_id)

\* sorted(all_months, key = (year, MONTH_ORDER.index(month)))
MonthIndex(name) == CHOOSE i \in 1..12 : MONTH_ORDER[i] = name

RECURSIVE SortMonths(_)
SortMonths(all_months) ==
    IF all_months = {} THEN <<>>
    ELSE LET first == CHOOSE x \in all_months : \A z \in all_months :
                          \/ x[2] < z[2]
                          \/ x[2] = z[2] /\ MonthIndex(x[1]) <= MonthIndex(z[1])
         IN  <<first>> \o SortMonths(all_months \ {first})

-----------------------------------------------------------------------------
(* The ingestion run: upload_file (app.py) and process_excel_file          *)
(* (excel_parser.py). The workbook is an input: which sheets it holds is   *)
(* fixed when read_all_sheets reads it, the rows of a sheet when its       *)
(* normalizer walks them. `fault` is an exception of the store             *)
(* (sqlite3.OperationalError) raised by the normalizer's INSERT.           *)

ReferenceSheets == {"Day (in Month)", "Sales Projection 2025"}
PoolSheets == {"Data", "Production Data", "SALES BY FPR"}
SheetNames == ReferenceSheets \cup PoolSheets \cup {"Dashboard-1"}

\* Workbooks of the model hold at most MaxSheets of the six sheets.
MaxSheets == 2
Workbooks == {w \in SUBSET SheetNames : Cardinality(w) <= MaxSheets}

\* The rows of a sheet: up to MaxRows rows of its row domain.
SheetRows(domain) == UNION {[1..n -> domain] : n \in 0..MaxRows}

WorkingDaysRows ==
    { [Months |-> m, Days_in_months |-> NumCell(26)] : m \in {"Jul'25", "Total"} }

ProjectionHeaders == <<"Products", "Product Category", "Jul'25", "Jul'25.1", "Total'25">>

ProjectionRows ==
    { [Products |-> p, Product_Category |-> "Bev", Product_Category_2 |-> None,
       Type_of_Sales |-> None,
       cells |-> [h \in {"Jul'25", "Jul'25.1", "Total'25"} |-> NumCell(12)]]
      : p \in {"A", None} }

SalesRows ==
    { [Month |-> m, Products |-> p, Product_Category |-> "Bev",
       Product_Category_2 |-> None, Type_of_Sales |-> None,
       Qty_Budget |-> NumCell(8), Amount_Budget |-> NumCell(80),
       Qty_Actual |-> NumCell(10), Amount_Actual |-> NumCell(100),
       Qty_in_Liters_Budgeted |-> NumCell(4), Qty_in_Liters |-> NumCell(5)]
      : m \in {"Jul'25", "Total"}, p \in {"A", "B"} }

ProductionRows ==
    { [Month |-> "Jul'25", Products |-> p, Product_Category |-> "Bev",
       Product_Category_2 |-> None, Type_of_Sales |-> None,
       Qty_Budgeted |-> NumCell(9), Qty_Budgeted_In_Ltrs |-> NumCell(3),
       Qty_Actual |-> NumCell(7), Qty_in_Liters |-> EmptyCell]
      : p \in {"A", "B"} }

FprRows ==
    { [Year |-> y, Month |-> "Jul", SalesMan |-> "Ann", Location |-> None,
       Type_of_sales |-> "Retail", Amount |-> NumCell(50)]
      : y \in {NumCell(2025), TextCell("n/a")} }

CostRows == { <<m, NumCell(5), NumCell(7)>> : m \in {"Jul'25", None} }

RowDomain(sheet) ==
    CASE sheet = "Day (in Month)" -> WorkingDaysRows
      [] sheet = "Sales Projection 2025" -> ProjectionRows
      [] sheet = "Data" -> SalesRows
      [] sheet = "Production Data" -> ProductionRows
      [] sheet = "SALES BY FPR" -> FprRows
      [] sheet = "Dashboard-1" -> CostRows

\* Any rows of a sheet.
AnyRows(sheet) == SheetRows(RowDomain(sheet))

\* A sheet of one row that its normalizer stores: a month of 2025, product A.
PlainRows(sheet) ==
    CASE sheet = "Day (in Month)" ->
             {<<r>> : r \in {x \in WorkingDaysRows : x.Months = "Jul'25"}}
      [] sheet = "Sales Projection 2025" ->
             {<<r>> : r \in {x \in ProjectionRows : x.Products = "A"}}
      [] sheet = "Data" ->
             {<<r>> : r \in {x \in SalesRows : x.Month = "Jul'25" /\ x.Products = "A"}}
      [] sheet = "Production Data" ->
             {<<r>> : r \in {x \in ProductionRows : x.Products = "A"}}
      [] sheet = "SALES BY FPR" ->
             {<<r>> : r \in {x \in FprRows : x.Year = NumCell(2025)}}
      [] sheet = "Dashboard-1" ->
             {<<r>> : r \in {x \in CostRows : x[1] = "Jul'25"}}

allowed_file(filename) == filename \in {"data.xlsx", "data.xls"}

FileInputs == {None, "", "notes.txt", "data.xlsx"}

\* The ids the model lets the AUTOINCREMENT counters reach.
WithinBounds(d) ==
    /\ d.seq.product_categories <= MaxCategories
    /\ d.seq.products <= MaxProducts

\* POST /api/upload up to create_upload_record: the request is refused, or the
\* caches are reset and preloaded and the pending upload record is created.
upload_file(filename) ==
    /\ run.pc = "idle"
    /\ IF filename = None \/ filename = "" \/ ~allowed_file(filename)
       THEN /\ resp' = Reply("upload_file", 400)
            /\ UNCHANGED <<db, clock, cache, run>>
       ELSE /\ db.seq.file_uploads < MaxUploads
            /\ cache' = preload_caches(reset_caches, db)
            /\ clock' = clock + 1
            /\ db' = create_upload_record(db, filename, clock')
            /\ run' = [Idle EXCEPT !.pc = "read_all_sheets",
                                   !.upload_id = db.seq.file_uploads + 1]
            /\ UNCHANGED resp

\* The except and finally clauses of process_excel_file, and the 500 of
\* upload_file: d is the store as the failed stage left it.
Raise(d, error) ==
    /\ db' = update_upload_error(d, run.upload_id, error)
    /\ cache' = reset_caches
    /\ run' = Idle
    /\ resp' = Reply("upload_file", 500)
    /\ UNCHANGED clock

\* Phase 1: read_all_sheets reads the workbook, or raises on a file it cannot open.
read_all_sheets(workbook, readable) ==
    /\ run.pc = "read_all_sheets"
    /\ IF readable
       THEN /\ run' = [run EXCEPT !.pc = "process_working_days", !.sheets = workbook]
            /\ UNCHANGED <<db, clock, cache, resp>>
       ELSE Raise(db, "File is not a zip file")

\* A stage of the main thread ends: the sheet is recorded, the next stage is due.
Done(name, months_set, next) ==
    [run EXCEPT !.pc = next,
                !.all_months = @ \cup months_set,
                !.sheets_processed = Append(@, name),
                !.pending = IF next = "pool" THEN run.sheets \cap PoolSheets ELSE @]

Skip(next) ==
    [run EXCEPT !.pc = next,
                !.pending = IF next = "pool" THEN run.sheets \cap PoolSheets ELSE @]

\* Phase 2, first reference sheet.
stage_working_days(rows, fault) ==
    /\ run.pc = "process_working_days"
    /\ IF "Day (in Month)" \notin run.sheets
       THEN /\ run' = Skip("process_sales_projection")
            /\ UNCHANGED <<db, clock, cache, resp>>
       ELSE LET c == process_working_days(db, cache, rows, run.upload_id)
            IN  IF fault
                THEN Raise(c.db, "database is locked")
                ELSE /\ db' = [c.db EXCEPT !.working_days =
                                  InsertOrReplace(@, c.batch,
                                      <<"upload_id", "year_id", "month_id">>)]
                     /\ cache' = c.cache
                     /\ run' = Done("Day (in Month)", c.months_set,
                                    "process_sales_projection")
                     /\ UNCHANGED <<clock, resp>>

\* Phase 2, second reference sheet.
stage_sales_projection(rows, fault) ==
    /\ run.pc = "process_sales_projection"
    /\ IF "Sales Projection 2025" \notin run.sheets
       THEN /\ run' = Skip("pool")
            /\ UNCHANGED <<db, clock, cache, resp>>
       ELSE LET c == process_sales_projection(db, cache, rows, ProjectionHeaders,
                                              run.upload_id)
            IN  /\ WithinBounds(c.db)
                /\ IF fault
                   THEN Raise(c.db, "database is locked")
                   ELSE /\ db' = [c.db EXCEPT !.budget_projection =
                                     InsertOrReplace(@, c.batch,
                                         <<"upload_id", "year_id", "month_id",
                                           "product_id">>)]
                        /\ cache' = c.cache
                        /\ run' = Done("Sales Projection 2025", c.months_set, "pool")
                        /\ UNCHANGED <<clock, resp>>

\* Phase 3: a worker of the pool runs process_wrapper on its sheet. Its
\* exception is returned as a text, which process_excel_file prints.
WorkerDone(name, months_set) ==
    [run EXCEPT !.all_months = @ \cup months_set,
                !.sheets_processed = Append(@, name),
                !.pending = @ \ {name}]

\* results holds (sheet_name, set(), str(e)) for a worker that raised.
WorkerFailed(name) == [run EXCEPT !.pending = @ \ {name}, !.errors = @ \cup {name}]

worker_sales_data(rows, fault) ==
    /\ run.pc = "pool"
    /\ "Data" \in run.pending
    /\ LET c == process_sales_data(db, cache, rows, run.upload_id)
       IN  /\ WithinBounds(c.db)
           /\ cache' = c.cache
           /\ IF fault
              THEN /\ db' = c.db
                   /\ run' = WorkerFailed("Data")
              ELSE /\ db' = [c.db EXCEPT !.sales_data = @ \cup c.batch]
                   /\ run' = WorkerDone("Data", c.months_set)
    /\ UNCHANGED <<clock, resp>>

worker_production_data(rows, fault) ==
    /\ run.pc = "pool"
    /\ "Production Data" \in run.pending
    /\ LET c == process_production_data(db, cache, rows, run.upload_id)
       IN  /\ WithinBounds(c.db)
           /\ cache' = c.cache
           /\ IF fault
              THEN /\ db' = c.db
                   /\ run' = WorkerFailed("Production Data")
              ELSE /\ db' = [c.db EXCEPT !.production_data = @ \cup c.batch]
                   /\ run' = WorkerDone("Production Data", c.months_set)
    /\ UNCHANGED <<clock, resp>>

worker_sales_by_fpr(rows, fault) ==
    /\ run.pc = "pool"
    /\ "SALES BY FPR" \in run.pending
    /\ LET c == process_sales_by_fpr(db, cache, rows, run.upload_id)
       IN  /\ cache' = c.cache
           /\ IF fault \/ c.raised
              THEN /\ db' = c.db
                   /\ run' = WorkerFailed("SALES BY FPR")
              ELSE /\ db' = InsertFpr(c.db, c.batch)
                   /\ run' = WorkerDone("SALES BY FPR", c.months_set)
    /\ UNCHANGED <<clock, resp>>

\* Faulty variant: the cost sheet processed without waiting for the pool.
stage_cost_data_unawaited(cost_rows, fault) ==
    /\ run.pc = "pool"
    /\ IF "Dashboard-1" \notin run.sheets
       THEN /\ run' = Skip("update_upload_success")
            /\ UNCHANGED <<db, clock, cache, resp>>
       ELSE LET c == process_cost_data(db, cache, cost_rows, run.upload_id)
            IN  IF c.batch # <<>> /\ "cost_data" \notin c.db.tables
                THEN Raise(c.db, "no such table: cost_data")
                ELSE IF fault
                THEN Raise(c.db, "database is locked")
                ELSE /\ db' = [c.db EXCEPT !.cost_data =
                                  InsertOrReplace(@, c.batch,
                                      <<"upload_id", "year_id", "month_id">>)]
                     /\ cache' = c.cache
                     /\ run' = Done("Dashboard-1", c.months_set,
                                    "update_upload_success")
                     /\ UNCHANGED <<clock, resp>>

\* Phase 4: the cost sheet, once every worker has returned.
stage_cost_data(cost_rows, fault) ==
    /\ run.pc = "pool"
    /\ run.pending = {}
    /\ IF "Dashboard-1" \notin run.sheets
       THEN /\ run' = Skip("update_upload_success")
            /\ UNCHANGED <<db, clock, cache, resp>>
       ELSE LET c == process_cost_data(db, cache, cost_rows, run.upload_id)
            IN  IF c.batch # <<>> /\ "cost_data" \notin c.db.tables
                THEN Raise(c.db, "no such table: cost_data")
                ELSE IF fault
                THEN Raise(c.db, "database is locked")
                ELSE /\ db' = [c.db EXCEPT !.cost_data =
                                  InsertOrReplace(@, c.batch,
                                      <<"upload_id", "year_id", "month_id">>)]
                     /\ cache' = c.cache
                     /\ run' = Done("Dashboard-1", c.months_set,
                                    "update_upload_success")
                     /\ UNCHANGED <<clock, resp>>

\* The end of process_excel_file and the 200 of upload_file.
finish_upload ==
    /\ run.pc = "update_upload_success"
    /\ db' = update_upload_success(db, run.upload_id, run.sheets_processed,
                                   SortMonths(run.all_months))
    /\ cache' = reset_caches
    /\ run' = Idle
    /\ resp' = [Reply("upload_file", 200) EXCEPT !.upload_id = run.upload_id]
    /\ UNCHANGED clock

-----------------------------------------------------------------------------
(* DELETE /api/uploads/<upload_id> (app.py).                               *)

UploadIdInputs == 1..(MaxUploads + 1)

\* Faulty variant: the fact-table DELETEs without their WHERE clause.
DeleteRowsOfEveryUpload(d, upload_id) ==
    [d EXCEPT !.sales_data = {}, !.budget_projection = {}, !.working_days = {},
              !.production_data = {}, !.sales_by_fpr = {}, !.cost_data = {},
              !.file_uploads = {u \in @ : u.id # upload_id}]

\* The six DELETE ... WHERE upload_id = ? and the DELETE of the upload record.
DeleteUploadRows(d, upload_id) ==
    [d EXCEPT !.sales_data = {r \in @ : r.upload_id # upload_id},
              !.budget_projection = {r \in @ : r.upload_id # upload_id},
              !.working_days = {r \in @ : r.upload_id # upload_id},
              !.production_data = {r \in @ : r.upload_id # upload_id},
              !.sales_by_fpr = {r \in @ : r.upload_id # upload_id},
              !.cost_data = {r \in @ : r.upload_id # upload_id},
              !.file_uploads = {u \in @ : u.id # upload_id}]

\* Faulty variant: the NOT IN over production_data left out.
OrphanProductsWithoutProduction(d) ==
    {p \in d.products :
        p.id \notin {r.product_id : r \in d.sales_data}
                    \cup {r.product_id : r \in d.budget_projection}}

OrphanProducts(d) ==
    {p \in d.products :
        p.id \notin {r.product_id : r \in d.sales_data}
                    \cup {r.product_id : r \in d.budget_projection}
                    \cup {r.product_id : r \in d.production_data}}

OrphanCategories(d) ==
    {c \in d.product_categories : c.id \notin {p.category_id : p \in d.products}}

OrphanYears(d) ==
    {y \in d.years :
        y.id \notin {r.year_id : r \in d.sales_data}
                    \cup {r.year_id : r \in d.budget_projection}
                    \cup {r.year_id : r \in d.working_days}
                    \cup {r.year_id : r \in d.production_data}}

\* The three clean-up statements, in the order of the code.
DeleteOrphans(d) ==
    LET d1 == [d EXCEPT !.products = @ \ OrphanProducts(d)]
        d2 == [d1 EXCEPT !.product_categories = @ \ OrphanCategories(d1)]
    IN  [d2 EXCEPT !.years = @ \ OrphanYears(d2)]

\* Faulty variant: no look-up of the upload record before the DELETEs.
delete_upload_unchecked(upload_id) ==
    /\ run.pc = "idle"
    /\ IF "cost_data" \notin db.tables
       THEN /\ resp' = Reply("delete_upload", 500)
            /\ UNCHANGED db
       ELSE /\ db' = DeleteOrphans(DeleteUploadRows(db, upload_id))
            /\ resp' = Reply("delete_upload", 200)
    /\ UNCHANGED <<clock, cache, run>>

delete_upload(upload_id) ==
    /\ run.pc = "idle"
    /\ IF ~\E u \in db.file_uploads : u.id = upload_id
       THEN /\ resp' = Reply("delete_upload", 404)
            /\ UNCHANGED db
       ELSE IF "cost_data" \notin db.tables
       THEN \* no such table: cost_data; the connection is closed uncommitted
            /\ resp' = Reply("delete_upload", 500)
            /\ UNCHANGED db
       ELSE /\ db' = DeleteOrphans(DeleteUploadRows(db, upload_id))
            /\ resp' = Reply("delete_upload", 200)
    /\ UNCHANGED <<clock, cache, run>>

\* The statements of delete_upload after the look-up, in the order of the
\* code: statement i applied to the state d the connection sees.
DeleteStatement(d, upload_id, i) ==
    CASE i = 1 -> [d EXCEPT !.sales_data = {r \in @ : r.upload_id # upload_id}]
      [] i = 2 -> [d EXCEPT !.budget_projection = {r \in @ : r.upload_id # upload_id}]
      [] i = 3 -> [d EXCEPT !.working_days = {r \in @ : r.upload_id # upload_id}]
      [] i = 4 -> [d EXCEPT !.production_data = {r \in @ : r.upload_id # upload_id}]
      [] i = 5 -> [d EXCEPT !.sales_by_fpr = {r \in @ : r.upload_id # upload_id}]
      [] i = 6 -> [d EXCEPT !.cost_data = {r \in @ : r.upload_id # upload_id}]
      [] i = 7 -> [d EXCEPT !.file_uploads = {u \in @ : u.id # upload_id}]
      [] i = 8 -> [d EXCEPT !.products = @ \ OrphanProducts(d)]
      [] i = 9 -> [d EXCEPT !.product_categories = @ \ OrphanCategories(d)]
      [] OTHER -> [d EXCEPT !.years = @ \ OrphanYears(d)]

DeleteStatements == 10

\* What the connection sees after the first k statements.
RECURSIVE Executed(_, _, _)
Executed(d, upload_id, k) ==
    IF k = 0 THEN d ELSE DeleteStatement(Executed(d, upload_id, k - 1), upload_id, k)

\* Faulty variant: a connection that commits every statement as it executes.
close_after_autocommit(committed, working) == working

\* conn.close() without conn.commit(): sqlite3 has opened a transaction before
\* the first DELETE and rolls it back when the connection is closed.
close_without_commit(committed, working) == committed

\* delete_upload where statement k + 1 raises, or where the request ends
\* after statement k: the except clause closes the connection.
delete_upload_interrupted(upload_id, k) ==
    /\ run.pc = "idle"
    /\ \E u \in db.file_uploads : u.id = upload_id
    /\ k >= 6 => "cost_data" \in db.tables
    /\ db' = close_without_commit(db, Executed(db, upload_id, k))
    /\ resp' = Reply("delete_upload", 500)
    /\ UNCHANGED <<clock, cache, run>>

-----------------------------------------------------------------------------
(* Report endpoints (app.py). The response of the model carries the status,*)
(* the upload the report was scoped to, `used`, the fact rows its queries  *)
(* read, each tagged with its table, and `body`, the computed figures.     *)
(* Amounts and quantities are integers; a percentage or an average rounded *)
(* to 2 decimals is held as its number of hundredths.                      *)

\* Faulty variant: ORDER BY uploaded_date ASC.
get_oldest_upload_id(d) ==
    LET successful == {u \in d.file_uploads : u.is_successful = 1}
    IN  IF successful = {} THEN NoId
        ELSE (CHOOSE u \in successful :
                 \A v \in successful : u.uploaded_date <= v.uploaded_date).id

\* SELECT id FROM file_uploads WHERE is_successful = 1
\* ORDER BY uploaded_date DESC LIMIT 1
get_latest_upload_id(d) ==
    LET successful == {u \in d.file_uploads : u.is_successful = 1}
    IN  IF successful = {} THEN NoId
        ELSE (CHOOSE u \in successful :
                 \A v \in successful : v.uploaded_date <= u.uploaded_date).id

\* SELECT id FROM years WHERE year = ?
YearId(d, year) ==
    IF \E y \in d.years : y.year = year
    THEN (CHOOSE y \in d.years : y.year = year).id ELSE NoId

\* SELECT id FROM months WHERE name = ?
MonthId(month_name) ==
    IF \E m \in months : m.name = month_name
    THEN (CHOOSE m \in months : m.name = month_name).id ELSE NoId

Tagged(table, rows) == {<<table, r>> : r \in rows}

\* Faulty variant: the WHERE clause without AND upload_id = ?
ScopedAcrossUploads(rows, year_ids, month_ids, upload_id) ==
    {r \in rows : r.year_id \in year_ids /\ r.month_id \in month_ids}

\* WHERE year_id IN (...) AND month_id IN (...) AND upload_id = ?
Scoped(rows, year_ids, month_ids, upload_id) ==
    {r \in rows : r.year_id \in year_ids /\ r.month_id \in month_ids
                  /\ r.upload_id = upload_id}

\* JOIN products p ON product_id = p.id JOIN product_categories pc ON ...
JoinedToCategory(d, rows) ==
    {r \in rows : \E q \in d.products :
        /\ q.id = r.product_id
        /\ \E c \in d.product_categories : c.id = q.category_id}

\* A report response with the figures of its JSON body that the model follows.
ReportWith(op, status, upload_id, used, body) ==
    [op |-> op, status |-> status, upload_id |-> upload_id, used |-> used,
     body |-> body]

Report(op, status, upload_id, used) == ReportWith(op, status, upload_id, used, {})

AllMonthIds == {m.id : m \in months}

\* round(num / den, 2) in hundredths, for den # 0: the nearest integer to
\* 100 * num / den, a tie going to the even one. (No quotient of the model's
\* values is a tie, nor within a float's error of one.)
RoundedHundredths(num, den) ==
    LET n == IF den < 0 THEN 0 - num ELSE num
        d == IF den < 0 THEN 0 - den ELSE den
        q == (100 * n) \div d
        r == (100 * n) % d
    IN  IF 2 * r < d THEN q
        ELSE IF 2 * r > d THEN q + 1
        ELSE IF q % 2 = 0 THEN q ELSE q + 1

\* SUM(field) over the rows of a group.
RECURSIVE SumOf(_, _)
SumOf(rows, field) ==
    IF rows = {} THEN 0
    ELSE LET r == CHOOSE r \in rows : TRUE
         IN  r[field] + SumOf(rows \ {r}, field)

\* The divisor of the daily averages when the upload has no working_days row
\* for the period.
DefaultWorkingDays == 27

\* Faulty variant: the working_days row of any upload.
WorkingDaysOfAnyUpload(d, upload_id, year_id, month_id) ==
    LET days_rows == {r \in d.working_days :
                         r.year_id = year_id /\ r.month_id = month_id}
    IN  IF days_rows = {} THEN DefaultWorkingDays
        ELSE (CHOOSE r \in days_rows : TRUE).days

\* working_days = days_row['days'] if days_row else 27
WorkingDays(d, upload_id, year_id, month_id) ==
    LET days_rows == Scoped(d.working_days, {year_id}, {month_id}, upload_id)
    IN  IF days_rows = {} THEN DefaultWorkingDays
        ELSE (CHOOSE r \in days_rows : TRUE).days

\* The daily averages of a comparison report. `metrics` names them: each is
\* <<name, table, column>>, the average of SUM(column) over the period's rows
\* of the table.
DailyAverages(d, metrics, upload_id, year_id, month_id) ==
    LET working_days == WorkingDays(d, upload_id, year_id, month_id)
        total(t) == SumOf(Scoped(Rows(d, t[2]), {year_id}, {month_id}, upload_id), t[3])
    IN  { [scope |-> "daily", metric |-> t[1], year_id |-> year_id,
           month_id |-> month_id, total |-> total(t),
           days_in_month |-> working_days,
           value |-> IF working_days > 0
                     THEN RoundedHundredths(total(t), working_days) ELSE 0]
          : t \in metrics }

\* The four reports of one year and one month share their opening: latest
\* upload, year id, month id, each answered 404 when missing. `tables` are the
\* fact tables the queries of the report read, `metrics` its daily averages.
PeriodReport(op, year, month_name, tables, metrics) ==
    LET latest_upload_id == get_latest_upload_id(db)
        year_id == YearId(db, year)
        month_id == MonthId(month_name)
        used(u, y, m) ==
            UNION {Tagged(t, Scoped(Rows(db, t), {y}, {m}, u)) : t \in tables}
    IN  /\ run.pc = "idle"
        /\ resp' = IF latest_upload_id = NoId \/ year_id = NoId \/ month_id = NoId
                   THEN Reply(op, 404)
                   ELSE ReportWith(op, 200, latest_upload_id,
                                   used(latest_upload_id, year_id, month_id),
                                   DailyAverages(db, metrics, latest_upload_id,
                                                 year_id, month_id))
        /\ UNCHANGED <<db, clock, cache, run>>

\* GET /api/comparison-sales
get_comparison_sales(year, month_name) ==
    PeriodReport("comparison-sales", year, month_name,
                 {"working_days", "budget_projection", "sales_data"},
                 {<<"daily_avg_budget", "budget_projection", "quantity">>,
                  <<"daily_avg_actual", "sales_data", "qty_actual">>})

\* GET /api/comparison-production
get_comparison_production(year, month_name) ==
    PeriodReport("comparison-production", year, month_name,
                 {"working_days", "budget_projection", "production_data"},
                 {<<"daily_avg_budget", "budget_projection", "quantity">>,
                  <<"daily_avg_actual", "production_data", "qty_actual">>,
                  <<"daily_liter_avg", "production_data", "qty_actual_liters">>})

\* GET /api/sales-by-location-salesman
get_sales_by_location_salesman(year, month_name) ==
    PeriodReport("sales-by-location-salesman", year, month_name, {"sales_by_fpr"},
                 {})

\* GET /api/sales-by-type
get_sales_by_type(year, month_name) ==
    PeriodReport("sales-by-type", year, month_name, {"sales_by_fpr"}, {})

\* int(y.strip()) on the year texts of the model; 0 when int() raises ValueError.
ParseInt(text) ==
    CASE text = "2025" -> 2025
      [] text = "2026" -> 2026
      [] OTHER -> 0

\* The ids of the elements of a list that resolve; the others are passed over.
ResolvedYearIds(d, years) ==
    {YearId(d, years[i]) : i \in 1..Len(years)} \ {NoId}

ResolvedMonthIds(month_names) ==
    {MonthId(month_names[i]) : i \in 1..Len(month_names)} \ {NoId}

\* The two category-wise reports: comma-separated years and months.
CategoryWise(op, table, rows, years_param, months_param) ==
    LET years == [i \in 1..Len(years_param) |-> ParseInt(years_param[i])]
        latest_upload_id == get_latest_upload_id(db)
        year_ids == ResolvedYearIds(db, years)
        month_ids == ResolvedMonthIds(months_param)
    IN  /\ run.pc = "idle"
        /\ resp' =
             IF \E i \in 1..Len(years) : years[i] = 0
             THEN Reply(op, 500)
             ELSE IF latest_upload_id = NoId \/ year_ids = {} \/ month_ids = {}
             THEN Reply(op, 404)
             ELSE Report(op, 200, latest_upload_id,
                         Tagged(table,
                                JoinedToCategory(db,
                                    Scoped(rows, year_ids, month_ids, latest_upload_id))))
        /\ UNCHANGED <<db, clock, cache, run>>

\* GET /api/sales-category-wise
get_sales_category_wise(years_param, months_param) ==
    CategoryWise("sales-category-wise", "sales_data", db.sales_data,
                 years_param, months_param)

\* GET /api/production-category-wise
get_production_category_wise(years_param, months_param) ==
    CategoryWise("production-category-wise", "production_data", db.production_data,
                 years_param, months_param)

\* A growth percentage of a response: null (None), or its hundredths.
NoGrowth == [null |-> TRUE, pct |-> 0]

\* round(((curr - prev) / prev * 100), 2) if prev > 0 else None
growth_pct(prev, curr) ==
    IF prev > 0
    THEN [null |-> FALSE, pct |-> RoundedHundredths((curr - prev) * 100, prev)]
    ELSE NoGrowth

SetMax(S) == CHOOSE x \in S : \A y \in S : y <= x

\* pc.name, y.year and m.month_number of a joined fact row.
CategoryOf(d, r) ==
    LET q == CHOOSE q \in d.products : q.id = r.product_id
    IN  (CHOOSE c \in d.product_categories : c.id = q.category_id).name

YearOf(d, r) == (CHOOSE y \in d.years : y.id = r.year_id).year

MonthNumberOf(r) == (CHOOSE m \in months : m.id = r.month_id).month_number

\* The growth figures of the yoy report: per category and for the totals, the
\* quantity and the amount of the last two years of `years` and their growth.
\* With fewer than two years the response carries no growth.
YoyGrowth(d, rows, years) ==
    LET curr_year == SetMax(years)
        prev_year == SetMax(years \ {curr_year})
        of_year(rs, y) == {r \in rs : YearOf(d, r) = y}
        of_category(cat) == {r \in rows : CategoryOf(d, r) = cat}
        entry(scope, cat, metric, rs) ==
            LET prev == SumOf(of_year(rs, prev_year), metric)
                curr == SumOf(of_year(rs, curr_year), metric)
            IN  [scope |-> scope, category |-> cat, metric |-> metric,
                 has_prev |-> TRUE, prev |-> prev, curr |-> curr,
                 growth |-> growth_pct(prev, curr)]
    IN  IF Cardinality(years) < 2 THEN {}
        ELSE { entry("category", cat, metric, of_category(cat)) :
                 cat \in {CategoryOf(d, r) : r \in rows},
                 metric \in {"qty_actual", "amount_actual"} }
             \cup { entry("totals", "", metric, rows) :
                       metric \in {"qty_actual", "amount_actual"} }

\* The growth figures of the mom report: per month with sales rows, the sales
\* amount, that of the month with rows before it, and mom_growth_pct.
MomGrowth(rows) ==
    LET month_nums == {MonthNumberOf(r) : r \in rows}
        sales_amount(n) == SumOf({r \in rows : MonthNumberOf(r) = n}, "amount_actual")
        entry(n) ==
            LET before == {k \in month_nums : k < n}
                prev_amount == IF before = {} THEN 0 ELSE sales_amount(SetMax(before))
            IN  [scope |-> "month", category |-> "", metric |-> "sales_amount",
                 month_number |-> n,
                 has_prev |-> before # {}, prev |-> prev_amount,
                 curr |-> sales_amount(n),
                 growth |-> IF before = {} THEN NoGrowth
                            ELSE growth_pct(prev_amount, sales_amount(n))]
    IN  {entry(n) : n \in month_nums}

\* GET /api/yoy-growth: the years are those of the upload's sales rows.
get_yoy_growth(months_param) ==
    LET latest_upload_id == get_latest_upload_id(db)
        year_ids == {y.id : y \in {y \in db.years : \E r \in db.sales_data :
                                      r.year_id = y.id /\ r.upload_id = latest_upload_id}}
        month_ids == ResolvedMonthIds(months_param)
        years == {y.year : y \in {y \in db.years : y.id \in year_ids}}
        rows == JoinedToCategory(db, Scoped(db.sales_data, year_ids, month_ids,
                                            latest_upload_id))
    IN  /\ run.pc = "idle"
        /\ resp' =
             IF latest_upload_id = NoId \/ year_ids = {} \/ month_ids = {}
             THEN Reply("yoy-growth", 404)
             ELSE ReportWith("yoy-growth", 200, latest_upload_id,
                             Tagged("sales_data", rows),
                             YoyGrowth(db, rows, years))
        /\ UNCHANGED <<db, clock, cache, run>>

\* GET /api/mom-growth
get_mom_growth(year) ==
    LET latest_upload_id == get_latest_upload_id(db)
        year_id == YearId(db, year)
        rows == JoinedToCategory(db, Scoped(db.sales_data, {year_id}, AllMonthIds,
                                            latest_upload_id))
    IN  /\ run.pc = "idle"
        /\ resp' =
             IF latest_upload_id = NoId \/ year_id = NoId
             THEN Reply("mom-growth", 404)
             ELSE ReportWith("mom-growth", 200, latest_upload_id,
                             Tagged("sales_data", rows), MomGrowth(rows))
        /\ UNCHANGED <<db, clock, cache, run>>

\* GET /api/cost-analysis. The SELECT on cost_data is outside any try: on a
\* store without the table the request ends in a 500.
get_cost_analysis(year) ==
    LET latest_upload_id == get_latest_upload_id(db)
        year_id == YearId(db, year)
    IN  /\ run.pc = "idle"
        /\ resp' =
             IF latest_upload_id = NoId \/ year_id = NoId
             THEN Reply("cost-analysis", 404)
             ELSE IF "cost_data" \notin db.tables
             THEN Reply("cost-analysis", 500)
             ELSE Report("cost-analysis", 200, latest_upload_id,
                         Tagged("sales_data",
                                Scoped(db.sales_data, {year_id}, AllMonthIds,
                                       latest_upload_id))
                         \cup Tagged("cost_data",
                                Scoped(db.cost_data, {year_id}, AllMonthIds,
                                       latest_upload_id)))
        /\ UNCHANGED <<db, clock, cache, run>>

\* PUT /api/cost-analysis. body is FALSE for a request without JSON data; year 0
\* and month "" stand for a missing field, an empty cell for a missing fuel or lec.
update_cost_analysis(body, year, month, fuel, lec) ==
    LET latest_upload_id == get_latest_upload_id(db)
        year_id == YearId(db, year)
        month_id == MonthId(month)
        existing == Scoped(db.cost_data, {year_id}, {month_id}, latest_upload_id)
        updated(r) == [r EXCEPT !.fuel = IF fuel.t = "none" THEN @ ELSE fuel.n,
                                !.lec = IF lec.t = "none" THEN @ ELSE lec.n]
    IN  /\ run.pc = "idle"
        /\ IF ~body \/ year = 0 \/ month = ""
           THEN /\ resp' = Reply("update-cost-analysis", 400)
                /\ UNCHANGED db
           ELSE IF latest_upload_id = NoId \/ year_id = NoId \/ month_id = NoId
           THEN /\ resp' = Reply("update-cost-analysis", 404)
                /\ UNCHANGED db
           ELSE IF "cost_data" \notin db.tables
           THEN /\ resp' = Reply("update-cost-analysis", 500)
                /\ UNCHANGED db
           ELSE /\ db' = [db EXCEPT !.cost_data =
                             IF existing # {}
                             THEN (@ \ existing) \cup {updated(r) : r \in existing}
                             ELSE @ \cup {[upload_id |-> latest_upload_id,
                                           year_id |-> year_id, month_id |-> month_id,
                                           fuel |-> safe_float(fuel),
                                           lec |-> safe_float(lec)]}]
                /\ resp' = Report("update-cost-analysis", 200, latest_upload_id,
                                  Tagged("cost_data", existing))
        /\ UNCHANGED <<clock, cache, run>>

\* What a client asks for.
YearInputs == {2025, 2026}
MonthInputs == {"July", "Smarch"}
YearListInputs == {<<>>, <<"2025">>, <<"2026">>, <<"2025", "2026">>, <<"abc">>}
MonthListInputs == {<<>>, <<"July">>, <<"Smarch">>, <<"July", "Smarch">>}

Reports ==
    \/ \E y \in YearInputs, m \in MonthInputs : get_comparison_sales(y, m)
    \/ \E y \in YearInputs, m \in MonthInputs : get_comparison_production(y, m)
    \/ \E ys \in YearListInputs, ms \in MonthListInputs :
           get_sales_category_wise(ys, ms)
    \/ \E ys \in YearListInputs, ms \in MonthListInputs :
           get_production_category_wise(ys, ms)
    \/ \E ms \in MonthListInputs : get_yoy_growth(ms)
    \/ \E y \in YearInputs : get_mom_growth(y)
    \/ \E y \in YearInputs, m \in MonthInputs : get_sales_by_location_salesman(y, m)
    \/ \E y \in YearInputs, m \in MonthInputs : get_sales_by_type(y, m)
    \/ \E y \in YearInputs : get_cost_analysis(y)
    \/ \E b \in BOOLEAN, y \in YearInputs \cup {0}, m \in MonthInputs \cup {""},
          f \in {EmptyCell, NumCell(9)}, l \in {EmptyCell} :
           update_cost_analysis(b, y, m, f, l)

-----------------------------------------------------------------------------

\* The ingestion run over the workbooks, the sheet rows (a function of the
\* sheet name) and the store faults a specification lets happen.
Ingest(workbooks, rows_of, faults) ==
    \/ \E f \in FileInputs : upload_file(f)
    \/ \E w \in workbooks, unreadable \in faults : read_all_sheets(w, ~unreadable)
    \/ \E rows \in rows_of["Day (in Month)"], fault \in faults :
           stage_working_days(rows, fault)
    \/ \E rows \in rows_of["Sales Projection 2025"], fault \in faults :
           stage_sales_projection(rows, fault)
    \/ \E rows \in rows_of["Data"], fault \in faults :
           worker_sales_data(rows, fault)
    \/ \E rows \in rows_of["Production Data"], fault \in faults :
           worker_production_data(rows, fault)
    \/ \E rows \in rows_of["SALES BY FPR"], fault \in faults :
           worker_sales_by_fpr(rows, fault)
    \/ \E rows \in rows_of["Dashboard-1"], fault \in faults :
           stage_cost_data(rows, fault)
    \/ finish_upload

Ingestion == Ingest(Workbooks, [s \in SheetNames |-> AnyRows(s)], BOOLEAN)

\* The maintenance requests over the names and product bodies a specification
\* lets clients send.
Maintain(category_names, product_names, product_updates) ==
    \/ \E n \in category_names : create_product_category(n)
    \/ \E c \in CategoryIdInputs, n \in category_names :
           update_product_category(c, n)
    \/ \E c \in CategoryIdInputs : delete_product_category(c)
    \/ \E n \in product_names, c \in 0..(MaxCategories + 1) : create_product(n, c)
    \/ \E p \in ProductIdInputs, d \in product_updates : update_product(p, d)
    \/ \E p \in ProductIdInputs : delete_product(p)

Maintenance == Maintain(CategoryNameInputs, ProductNameInputs, ProductUpdates)

\* Uploading and deleting uploads, over every workbook of the model.
Next ==
    \/ Ingestion
    \/ \E u \in UploadIdInputs : delete_upload(u)

Spec == Init /\ [][Next]_vars

\* The reports over uploads of the sheets of the sales reports and uploads of
\* the production and salesman sheets, each sheet with one plain row. Both
\* kinds hold the working days sheet.
ReportWorkbooks ==
    { {"Day (in Month)", "Sales Projection 2025", "Data", "Dashboard-1"},
      {"Day (in Month)", "Production Data", "SALES BY FPR"} }

NextReports ==
    \/ Ingest(ReportWorkbooks, [s \in SheetNames |-> PlainRows(s)], {FALSE})
    \/ \E u \in UploadIdInputs : delete_upload(u)
    \/ Reports

SpecReports == Init /\ [][NextReports]_vars

\* Uploads and deletions where a deletion may stop after any of its statements.
NextDeletion ==
    \/ Ingest(ReportWorkbooks, [s \in SheetNames |-> PlainRows(s)], {FALSE})
    \/ \E u \in UploadIdInputs : delete_upload(u)
    \/ \E u \in UploadIdInputs, k \in 0..(DeleteStatements - 1) :
           delete_upload_interrupted(u, k)

SpecDeletion == Init /\ [][NextDeletion]_vars

\* Category and product maintenance on its own, over every name and body.
NextCatalog == Maintenance

SpecCatalog == Init /\ [][NextCatalog]_vars

\* Creating and deleting categories and products next to uploads that reference
\* product A of category Bev through each of the three product fact tables;
\* clients add category Snk and product B.
MaintenanceWorkbooks ==
    { {"Data"}, {"Production Data"}, {"Sales Projection 2025", "SALES BY FPR"} }

NextMaintenance ==
    \/ Ingest(MaintenanceWorkbooks, [s \in SheetNames |-> PlainRows(s)], {FALSE})
    \/ \E u \in UploadIdInputs : delete_upload(u)
    \/ \E n \in {"Snk"} : create_product_category(n)
    \/ \E c \in CategoryIdInputs : delete_product_category(c)
    \/ \E n \in {"B"}, c \in 0..(MaxCategories + 1) : create_product(n, c)
    \/ \E p \in ProductIdInputs : delete_product(p)

SpecMaintenance == Init /\ [][NextMaintenance]_vars

\* The figures of the reports, over uploads of a sales sheet with rows of
\* July 2024, June 2025 and July 2025 for product A: the two earlier periods
\* hold the quantity `prior` (negative for returns), July 2025 holds `current`,
\* each at a price of 10.
PriorValues == {0 - 5, 0, 3}
CurrentValues == {4}

FigureSalesRow(month, qty) ==
    [Month |-> month, Products |-> "A", Product_Category |-> "Bev",
     Product_Category_2 |-> None, Type_of_Sales |-> None,
     Qty_Budget |-> NumCell(8), Amount_Budget |-> NumCell(80),
     Qty_Actual |-> NumCell(qty), Amount_Actual |-> NumCell(10 * qty),
     Qty_in_Liters_Budgeted |-> NumCell(4), Qty_in_Liters |-> NumCell(5)]

FigureSalesSheets ==
    { <<FigureSalesRow("Jul'24", prior), FigureSalesRow("Jun'25", prior),
        FigureSalesRow("Jul'25", current)>> :
          prior \in PriorValues, current \in CurrentValues }

\* The working days sheet of such a workbook, when it has one: one row for
\* July 2025 whose days cell is a count, 0 or a negative number.
FigureDays == {0 - 1, 0, 26}

FigureDaysSheets ==
    { <<[Months |-> "Jul'25", Days_in_months |-> NumCell(days)]>> :
        days \in FigureDays }

FigureWorkbooks == { {"Data"}, {"Day (in Month)", "Data", "Production Data"} }

NextFigures ==
    \/ \E f \in {"data.xlsx"} : upload_file(f)
    \/ \E w \in FigureWorkbooks : read_all_sheets(w, TRUE)
    \/ \E rows \in FigureDaysSheets : stage_working_days(rows, FALSE)
    \/ stage_sales_projection(<<>>, FALSE)
    \/ \E rows \in FigureSalesSheets : worker_sales_data(rows, FALSE)
    \/ \E rows \in PlainRows("Production Data") : worker_production_data(rows, FALSE)
    \/ stage_cost_data(<<>>, FALSE)
    \/ finish_upload
    \/ \E ms \in {<<"July">>, <<"June", "July">>} : get_yoy_growth(ms)
    \/ \E y \in {2024, 2025} : get_mom_growth(y)
    \/ get_comparison_sales(2025, "July")
    \/ get_comparison_production(2025, "July")

SpecFigures == Init /\ [][NextFigures]_vars

\* The mom report over uploads of a sales sheet whose rows lie in two or three
\* months of 2025, with and without a month between them that has no rows.
GapMonths ==
    { <<"May'25", "Jun'25">>, <<"Jun'25", "Jul'25">>, <<"May'25", "Jul'25">>,
      <<"Apr'25", "May'25", "Jul'25">> }

GapSheets ==
    { [i \in DOMAIN ms |-> FigureSalesRow(ms[i], first + i)] :
        ms \in GapMonths, first \in {2, 5} }

NextGaps ==
    \/ \E f \in {"data.xlsx"} : upload_file(f)
    \/ \E w \in {{"Data"}} : read_all_sheets(w, TRUE)
    \/ stage_working_days(<<>>, FALSE)
    \/ stage_sales_projection(<<>>, FALSE)
    \/ \E rows \in GapSheets : worker_sales_data(rows, FALSE)
    \/ stage_cost_data(<<>>, FALSE)
    \/ finish_upload
    \/ \E y \in {2024, 2025} : get_mom_growth(y)

SpecGaps == Init /\ [][NextGaps]_vars

\* Ingestion of sheets in which several rows name the same month and product:
\* a workbook with one of the three product-keyed sheets, two rows each, the
\* first of product A, the second of A or B, with the quantities in any order.
AggregatedSheets == {"Sales Projection 2025", "Data", "Production Data"}

Quantities == {10, 15}

AggregationRow(sheet, product, qty) ==
    CASE sheet = "Sales Projection 2025" ->
             [Products |-> product, Product_Category |-> "Bev",
              Product_Category_2 |-> None, Type_of_Sales |-> None,
              cells |-> [h \in {"Jul'25", "Jul'25.1", "Total'25"} |-> NumCell(qty)]]
      [] sheet = "Data" ->
             [Month |-> "Jul'25", Products |-> product, Product_Category |-> "Bev",
              Product_Category_2 |-> None, Type_of_Sales |-> None,
              Qty_Budget |-> NumCell(qty + 1), Amount_Budget |-> NumCell(10 * qty + 10),
              Qty_Actual |-> NumCell(qty), Amount_Actual |-> NumCell(10 * qty),
              Qty_in_Liters_Budgeted |-> NumCell(2 * qty + 2),
              Qty_in_Liters |-> NumCell(2 * qty)]
      [] sheet = "Production Data" ->
             [Month |-> "Jul'25", Products |-> product, Product_Category |-> "Bev",
              Product_Category_2 |-> None, Type_of_Sales |-> None,
              Qty_Budgeted |-> NumCell(qty + 1),
              Qty_Budgeted_In_Ltrs |-> NumCell(2 * qty + 2),
              Qty_Actual |-> NumCell(qty), Qty_in_Liters |-> NumCell(2 * qty)]

AggregationSheets ==
    [sheet \in AggregatedSheets |->
        { <<AggregationRow(sheet, "A", first), AggregationRow(sheet, product, second)>> :
            first \in Quantities, second \in Quantities, product \in {"A", "B"} }]

NextAggregation ==
    \/ \E f \in {"data.xlsx"} : upload_file(f)
    \/ \E sheet \in AggregatedSheets : read_all_sheets({sheet}, TRUE)
    \/ stage_working_days(<<>>, FALSE)
    \/ \E rows \in AggregationSheets["Sales Projection 2025"], fault \in BOOLEAN :
           stage_sales_projection(rows, fault)
    \/ \E rows \in AggregationSheets["Data"], fault \in BOOLEAN :
           worker_sales_data(rows, fault)
    \/ \E rows \in AggregationSheets["Production Data"], fault \in BOOLEAN :
           worker_production_data(rows, fault)
    \/ stage_cost_data(<<>>, FALSE)
    \/ finish_upload

SpecAggregation == Init /\ [][NextAggregation]_vars

\* Sheets that mix rows the normalizers store with rows they pass over: a
\* month token that is no key of the month map, a product name that is
\* missing or blank.
SkippingSheetNames == {"Sales Projection 2025", "Data", "SALES BY FPR"}

\* The salesman sheet has no product column: there a missing product stands
\* for a year cell that holds a text.
SkippingRow(sheet, month, product) ==
    CASE sheet = "Sales Projection 2025" ->
             [Products |-> product, Product_Category |-> "Bev",
              Product_Category_2 |-> None, Type_of_Sales |-> None,
              cells |-> [h \in {"Jul'25", "Jul'25.1", "Total'25"} |-> NumCell(12)]]
      [] sheet = "Data" ->
             [Month |-> month, Products |-> product, Product_Category |-> "Bev",
              Product_Category_2 |-> None, Type_of_Sales |-> None,
              Qty_Budget |-> NumCell(8), Amount_Budget |-> NumCell(80),
              Qty_Actual |-> NumCell(10), Amount_Actual |-> NumCell(100),
              Qty_in_Liters_Budgeted |-> NumCell(4), Qty_in_Liters |-> NumCell(5)]
      [] sheet = "SALES BY FPR" ->
             [Year |-> IF product = None THEN TextCell("n/a") ELSE NumCell(2025),
              Month |-> IF month = "Jul'25" THEN "Jul" ELSE month,
              SalesMan |-> "Ann", Location |-> None,
              Type_of_sales |-> "Retail", Amount |-> NumCell(50)]

\* The rows a normalizer stores, and the rows it passes over.
StoredRows(sheet) ==
    { SkippingRow(sheet, "Jul'25", product) : product \in {"A", "B"} }

SkippedRows(sheet) ==
    CASE sheet = "Sales Projection 2025" ->
             { SkippingRow(sheet, "Jul'25", product) : product \in {None, "  "} }
      [] sheet = "Data" ->
             { SkippingRow(sheet, "Total", "A") }
                 \cup { SkippingRow(sheet, "Jul'25", product) : product \in {None, "  "} }
      [] sheet = "SALES BY FPR" ->
             { SkippingRow(sheet, month, product) :
                 month \in {"Total", "July"}, product \in {"A", None} }

\* Every sheet holds two rows, one of each kind, in either order.
SkippingSheets ==
    [sheet \in SkippingSheetNames |->
        { <<a, b>> : a \in StoredRows(sheet), b \in SkippedRows(sheet) }
            \cup { <<b, a>> : a \in StoredRows(sheet), b \in SkippedRows(sheet) }]

NextSkipping ==
    \/ \E f \in {"data.xlsx"} : upload_file(f)
    \/ \E w \in {SkippingSheetNames, {"Data"}} : read_all_sheets(w, TRUE)
    \/ stage_working_days(<<>>, FALSE)
    \/ \E rows \in SkippingSheets["Sales Projection 2025"] :
           stage_sales_projection(rows, FALSE)
    \/ \E rows \in SkippingSheets["Data"] : worker_sales_data(rows, FALSE)
    \/ \E rows \in SkippingSheets["SALES BY FPR"] : worker_sales_by_fpr(rows, FALSE)
    \/ stage_cost_data(<<>>, FALSE)
    \/ finish_upload
    \/ \E u \in {1} : delete_upload(u)

SpecSkipping == Init /\ [][NextSkipping]_vars

-----------------------------------------------------------------------------
(* Two upload requests at a time. The server handles each request in a     *)
(* thread of its own, so a second process_excel_file may run while `run`   *)
(* is under way. The second run reads a workbook that has none of the      *)
(* known sheets: it creates its record, processes nothing and marks the    *)
(* record successful. Its record is the pending one that is not `run`'s.   *)
(* The caches are module globals, shared by both runs.                     *)

\* reset_caches, preload_caches and create_upload_record of the other request.
upload_file_in_other_thread(filename) ==
    /\ allowed_file(filename)
    /\ db.seq.file_uploads < MaxUploads
    /\ \A u \in db.file_uploads :
           u.id = run.upload_id \/ u.is_successful = 1 \/ u.error_message # None
    /\ cache' = preload_caches(reset_caches, db)
    /\ clock' = clock + 1
    /\ db' = create_upload_record(db, filename, clock')
    /\ UNCHANGED <<run, resp>>

\* update_upload_success and the finally clause of the other request.
finish_upload_in_other_thread ==
    \E u \in db.file_uploads :
        /\ u.id # run.upload_id /\ u.is_successful = 0 /\ u.error_message = None
        /\ db' = update_upload_success(db, u.id, <<>>, SortMonths({}))
        /\ cache' = reset_caches
        /\ resp' = [Reply("upload_file", 200) EXCEPT !.upload_id = u.id]
        /\ UNCHANGED <<clock, run>>

NextOverlap ==
    \/ \E f \in {"data.xlsx"} : upload_file(f)
    \/ \E w \in {{"Data"}, {"Production Data"}} : read_all_sheets(w, TRUE)
    \/ stage_working_days(<<>>, FALSE)
    \/ stage_sales_projection(<<>>, FALSE)
    \/ \E rows \in PlainRows("Data") : worker_sales_data(rows, FALSE)
    \/ \E rows \in PlainRows("Production Data") : worker_production_data(rows, FALSE)
    \/ stage_cost_data(<<>>, FALSE)
    \/ finish_upload
    \/ \E f \in {"data.xls"} : upload_file_in_other_thread(f)
    \/ finish_upload_in_other_thread
    \/ get_sales_by_type(2025, "July")
    \/ get_comparison_production(2025, "July")

SpecOverlap == Init /\ [][NextOverlap]_vars

\* DELETE /api/uploads/<id> handled in another thread while the run of `run`
\* is between two of its commits: the handler of delete_upload on its own
\* connection, for an upload other than the one being ingested.
delete_upload_in_other_thread(upload_id) ==
    /\ run.pc # "idle"
    /\ upload_id # run.upload_id
    /\ IF ~\E u \in db.file_uploads : u.id = upload_id
       THEN /\ resp' = Reply("delete_upload", 404)
            /\ UNCHANGED db
       ELSE IF "cost_data" \notin db.tables
       THEN /\ resp' = Reply("delete_upload", 500)
            /\ UNCHANGED db
       ELSE /\ db' = DeleteOrphans(DeleteUploadRows(db, upload_id))
            /\ resp' = Reply("delete_upload", 200)
    /\ UNCHANGED <<clock, cache, run>>

\* Uploads of a sales sheet, one after the other, and deletions of earlier
\* uploads at any moment, also while a run is under way.
NextDeleteBeside ==
    \/ \E f \in {"data.xlsx"} : upload_file(f)
    \/ \E w \in {{"Data"}} : read_all_sheets(w, TRUE)
    \/ stage_working_days(<<>>, FALSE)
    \/ stage_sales_projection(<<>>, FALSE)
    \/ \E rows \in PlainRows("Data") : worker_sales_data(rows, FALSE)
    \/ stage_cost_data(<<>>, FALSE)
    \/ finish_upload
    \/ \E u \in UploadIdInputs : delete_upload(u)
    \/ \E u \in UploadIdInputs : delete_upload_in_other_thread(u)
    \/ get_sales_by_type(2025, "July")

SpecDeleteBeside == Init /\ [][NextDeleteBeside]_vars

-----------------------------------------------------------------------------
(* The resolvers call by call. The workers of the pool run in threads of   *)
(* their own, so their calls of get_or_create_year, get_or_create_category *)
(* and get_or_create_product interleave. A call reads the cache without    *)
(* the lock, then takes _cache_lock, reads the cache again, SELECTs, and   *)
(* INSERTs when there is no row. A worker of this model resolves one sheet *)
(* row: its year, its category, its product. `run` holds the workers and   *)
(* the owner of the lock; a worker holds its row, the number of its        *)
(* current call, the ids its calls returned and how each was found.        *)

ResolverThreads == {"Data", "Production Data"}

NoThread == "None"

ResolverKinds == <<"year", "category", "product">>

ResolverTables == <<"years", "product_categories", "products">>

\* The key a row of a reference table is found by.
RowKey(call, r) ==
    CASE call = 1 -> r.year
      [] call = 2 -> r.name
      [] call = 3 -> <<r.name, r.category_id>>

\* The key of a worker's current call; the product's key holds the category
\* id its second call returned.
CallKey(w, call) ==
    CASE call = 1 -> w.row.year
      [] call = 2 -> w.row.category
      [] call = 3 -> <<w.row.product, w.ids[2]>>

\* INSERT INTO years / product_categories / products
InsertedRow(call, key, id) ==
    CASE call = 1 -> [id |-> id, year |-> key]
      [] call = 2 -> [id |-> id, name |-> key]
      [] call = 3 -> [id |-> id, category_id |-> key[2], sub_category |-> None,
                      name |-> key[1], type_of_sales |-> None]

\* return of a call: the worker goes on to its next call.
Returned(w, id, how) ==
    [w EXCEPT !.ids = Append(@, id), !.how = Append(@, how),
              !.call = @ + 1,
              !.pc = IF w.call = 3 THEN "done" ELSE "check"]

\* _cache[key] = id
Cached(ch, call, key, id) ==
    [ch EXCEPT ![ResolverKinds[call]] = (key :> id) @@ @]

\* Faulty variant: the critical section entered without the lock.
LockIsIgnored(lock) == TRUE

\* with _cache_lock: a thread enters when no thread holds the lock.
LockIsFree(lock) == lock = NoThread

ResolverRows ==
    { [year |-> 2025, category |-> c, product |-> p] :
        c \in {"Bev", "Snk"}, p \in {"A", "B"} }

\* reset_caches, preload_caches and the submits to the pool.
start_workers(rows) ==
    /\ run.pc = "idle"
    /\ cache' = preload_caches(reset_caches, db)
    /\ run' = [pc |-> "resolving", lock |-> NoThread,
               workers |-> [t \in ResolverThreads |->
                               [pc |-> "check", call |-> 1, row |-> rows[t],
                                ids |-> <<>>, how |-> <<>>]]]
    /\ UNCHANGED <<db, clock, resp>>

\* if key in _cache: return _cache[key]
resolver_check(t) ==
    /\ run.pc = "resolving"
    /\ run.workers[t].pc = "check"
    /\ LET w == run.workers[t]
           key == CallKey(w, w.call)
           entries == cache[ResolverKinds[w.call]]
       IN  run' = [run EXCEPT !.workers[t] =
                      IF key \in DOMAIN entries
                      THEN Returned(w, entries[key], "cache")
                      ELSE [w EXCEPT !.pc = "wait"]]
    /\ UNCHANGED <<db, clock, cache, resp>>

\* with _cache_lock: the second look into the cache and the SELECT.
resolver_enter(t) ==
    /\ run.pc = "resolving"
    /\ run.workers[t].pc = "wait"
    /\ LockIsFree(run.lock)
    /\ LET w == run.workers[t]
           key == CallKey(w, w.call)
           entries == cache[ResolverKinds[w.call]]
           result == {r \in db[ResolverTables[w.call]] : RowKey(w.call, r) = key}
       IN  IF key \in DOMAIN entries
           THEN /\ run' = [run EXCEPT !.workers[t] =
                               Returned(w, entries[key], "second look")]
                /\ UNCHANGED cache
           ELSE IF result # {}
           THEN LET id == (CHOOSE r \in result : TRUE).id
                IN  /\ cache' = Cached(cache, w.call, key, id)
                    /\ run' = [run EXCEPT !.workers[t] = Returned(w, id, "select")]
           ELSE /\ run' = [run EXCEPT !.workers[t].pc = "insert", !.lock = t]
                /\ UNCHANGED cache
    /\ UNCHANGED <<db, clock, resp>>

\* The INSERT, the commit, the cache entry, the return and the release.
resolver_insert(t) ==
    /\ run.pc = "resolving"
    /\ run.workers[t].pc = "insert"
    /\ LET w == run.workers[t]
           key == CallKey(w, w.call)
           table == ResolverTables[w.call]
           id == db.seq[table] + 1
       IN  /\ db' = [db EXCEPT ![table] = @ \cup {InsertedRow(w.call, key, id)},
                               !.seq[table] = id]
           /\ cache' = Cached(cache, w.call, key, id)
           /\ run' = [run EXCEPT !.workers[t] = Returned(w, id, "insert"),
                                 !.lock = NoThread]
    /\ UNCHANGED <<clock, resp>>

\* Every worker has returned; the finally clause resets the caches.
workers_done ==
    /\ run.pc = "resolving"
    /\ \A t \in ResolverThreads : run.workers[t].pc = "done"
    /\ run' = Idle
    /\ cache' = reset_caches
    /\ UNCHANGED <<db, clock, resp>>

NextResolvers ==
    \/ \E n \in {"Bev"} : create_product_category(n)
    \/ \E n \in {"A"}, c \in {1} : create_product(n, c)
    \/ \E rows \in [ResolverThreads -> ResolverRows] : start_workers(rows)
    \/ \E t \in ResolverThreads : resolver_check(t)
    \/ \E t \in ResolverThreads : resolver_enter(t)
    \/ \E t \in ResolverThreads : resolver_insert(t)
    \/ workers_done

SpecResolvers == Init /\ [][NextResolvers]_vars

-----------------------------------------------------------------------------
(* The month parsers applied to tokens: parse_month of excel_parser.py, the *)
(* parser of the ingestion, and parse_month_year of excel_reader.py. The    *)
(* last answer holds the token and what the parser returned for it.        *)

DigitChars == <<"0", "1", "2", "3", "4", "5", "6", "7", "8", "9">>

TwoDigitYears == 0..99

\* The token Mon'YY of the month with number month_number and the year 2000 + yy.
MonthToken(month_number, yy) ==
    MonthShortNames[month_number] \o "'" \o DigitChars[(yy \div 10) + 1]
        \o DigitChars[(yy % 10) + 1]

\* A parser's result: a (month name, year) pair, or no match.
NoMatch == [found |-> FALSE, month_name |-> None, year |-> 0]
Match(month_name, year) == [found |-> TRUE, month_name |-> month_name, year |-> year]

\* month_name, year = parse_month(token), as the normalizers call it.
apply_parse_month(month_number, yy) ==
    LET token == MonthToken(month_number, yy)
        pm == parse_month(token)
    IN  /\ resp' = ReportWith("parse_month", 0, NoId, {},
                      {[month_number |-> month_number, yy |-> yy, token |-> token,
                        result |-> IF pm[1] = None THEN NoMatch
                                   ELSE Match(pm[1], pm[2])]})
        /\ UNCHANGED <<db, clock, cache, run>>

\* excel_reader.py reads the characters of its argument: a string is the
\* sequence of its characters there, and an argument is a string, None or a
\* number.
UpperChars ==
    <<"A", "B", "C", "D", "E", "F", "G", "H", "I", "J", "K", "L", "M",
      "N", "O", "P", "Q", "R", "S", "T", "U", "V", "W", "X", "Y", "Z">>

LowerChars ==
    <<"a", "b", "c", "d", "e", "f", "g", "h", "i", "j", "k", "l", "m",
      "n", "o", "p", "q", "r", "s", "t", "u", "v", "w", "x", "y", "z">>

\* [A-Za-z] and \d of the pattern.
IsAlpha(ch) == \E i \in 1..26 : ch = UpperChars[i] \/ ch = LowerChars[i]
IsDigit(ch) == \E i \in 1..10 : ch = DigitChars[i]

\* int() of one digit.
DigitValue(ch) == (CHOOSE i \in 1..10 : ch = DigitChars[i]) - 1

ToUpper(ch) ==
    IF \E i \in 1..26 : ch = LowerChars[i]
    THEN UpperChars[CHOOSE i \in 1..26 : ch = LowerChars[i]] ELSE ch

ToLower(ch) ==
    IF \E i \in 1..26 : ch = UpperChars[i]
    THEN LowerChars[CHOOSE i \in 1..26 : ch = UpperChars[i]] ELSE ch

\* str.capitalize()
capitalize(chars) ==
    [i \in DOMAIN chars |-> IF i = 1 THEN ToUpper(chars[i]) ELSE ToLower(chars[i])]

\* The keys of MONTH_MAP of excel_reader.py, in the order of the months.
READER_MONTH_KEYS ==
    << <<"J", "a", "n">>, <<"F", "e", "b">>, <<"M", "a", "r">>, <<"A", "p", "r">>,
       <<"M", "a", "y">>, <<"J", "u", "n">>, <<"J", "u", "l">>, <<"A", "u", "g">>,
       <<"S", "e", "p">>, <<"O", "c", "t">>, <<"N", "o", "v">>, <<"D", "e", "c">> >>

StrArg(chars) == [t |-> "str", chars |-> chars]
NoneArg == [t |-> "none", chars |-> <<>>]
NumArg == [t |-> "num", chars |-> <<>>]

\* re.match(r"([A-Za-z]{3})'?(\d{2})", month_str): the position of the two
\* digits when the start of the string matches, 0 when it does not.
MatchedDigitsAt(chars) ==
    LET letters == Len(chars) >= 3 /\ \A i \in 1..3 : IsAlpha(chars[i])
        digits_at(k) ==
            Len(chars) >= k + 1 /\ IsDigit(chars[k]) /\ IsDigit(chars[k + 1])
    IN  IF letters /\ Len(chars) >= 4 /\ chars[4] = "'" /\ digits_at(5) THEN 5
        ELSE IF letters /\ digits_at(4) THEN 4
        ELSE 0

parse_month_year(month_str) ==
    IF month_str.t # "str" \/ month_str.chars = <<>> THEN NoMatch
    ELSE LET chars == month_str.chars
             at == MatchedDigitsAt(chars)
         IN  IF at = 0 THEN NoMatch
             ELSE LET month_abbr == capitalize(SubSeq(chars, 1, 3))
                      year_short == 10 * DigitValue(chars[at]) + DigitValue(chars[at + 1])
                      year_full == 2000 + year_short
                  IN  IF \E i \in 1..12 : READER_MONTH_KEYS[i] = month_abbr
                      THEN Match(MONTH_ORDER[CHOOSE i \in 1..12 :
                                                 READER_MONTH_KEYS[i] = month_abbr],
                                 year_full)
                      ELSE NoMatch

\* The arguments parse_month_year is applied to: None, a number, and the
\* strings made of an abbreviation or something like it, a separator, a year
\* and a rest, each of which may be missing.
MonthArgs ==
    {NoneArg, NumArg} \cup
    { StrArg(abbr \o sep \o year \o rest) :
        abbr \in { <<"J", "a", "n">>, <<"j", "a", "n">>, <<"J", "U", "L">>,
                    <<"D", "e", "c">>, <<"X", "y", "z">>, <<"J", "a">>, <<>> },
        sep \in { <<>>, <<"'">>, <<" ">> },
        year \in { <<"2", "5">>, <<"2", "0", "2", "5">>, <<"5">>, <<>> },
        rest \in { <<>>, <<"x">>, <<".", "1">> } }

apply_parse_month_year(month_str) ==
    /\ resp' = ReportWith("parse_month_year", 0, NoId, {},
                  {[arg |-> month_str, result |-> parse_month_year(month_str)]})
    /\ UNCHANGED <<db, clock, cache, run>>

NextParsers ==
    \/ \E month_number \in 1..12, yy \in TwoDigitYears :
           apply_parse_month(month_number, yy)
    \/ \E month_str \in MonthArgs : apply_parse_month_year(month_str)

SpecParsers == Init /\ [][NextParsers]_vars

-----------------------------------------------------------------------------
(* Properties.                                                             *)

\* The fact rows of upload `id` in the six fact tables.
FactRowsOf(d, id) ==
    Tagged("working_days", {r \in d.working_days : r.upload_id = id})
    \cup Tagged("budget_projection", {r \in d.budget_projection : r.upload_id = id})
    \cup Tagged("sales_data", {r \in d.sales_data : r.upload_id = id})
    \cup Tagged("production_data", {r \in d.production_data : r.upload_id = id})
    \cup Tagged("sales_by_fpr", {r \in d.sales_by_fpr : r.upload_id = id})
    \cup Tagged("cost_data", {r \in d.cost_data : r.upload_id = id})

\* The operations of the report endpoints, as their responses name them.
ReportOps ==
    {"comparison-sales", "comparison-production", "sales-category-wise",
     "production-category-wise", "yoy-growth", "mom-growth",
     "sales-by-location-salesman", "sales-by-type", "cost-analysis",
     "update-cost-analysis"}

\* A step that answers a report request: no run is under way before or after
\* it and the response is a report's. Every other request handled while no run
\* is under way puts its own operation in the response.
ReportStep == run.pc = "idle" /\ run'.pc = "idle" /\ resp'.op \in ReportOps

\* C1: every report that answers 200 was computed from rows of the store that
\* all carry one upload id, the id of an upload record with is_successful = 1;
\* rows of failed, pending or other uploads are not among the rows it read.
C1_ReportsReadOneSuccessfulUpload ==
    [][ReportStep /\ resp'.status = 200 =>
          /\ \E u \in db.file_uploads :
                 u.id = resp'.upload_id /\ u.is_successful = 1
          /\ resp'.used \subseteq FactRowsOf(db, resp'.upload_id)]_vars

\* C1 happens: a report answered 200 from rows of a successful upload while a
\* failed upload holds committed rows in a table the report read.
C1_Witness ==
    /\ resp.status = 200
    /\ \E u \in db.file_uploads, t \in resp.used :
           /\ u.is_successful = 0
           /\ u.id # resp.upload_id
           /\ \E r \in Rows(db, t[1]) :
                  /\ r.upload_id = u.id
                  /\ r.year_id = t[2].year_id
                  /\ r.month_id = t[2].month_id

\* C2: an accepted upload adds exactly one upload record, whose id no other
\* record has and no earlier record had; and a report that answers 200 is
\* scoped to the successful upload with the latest uploaded_date.
C2_DistinctUploadsLatestSuccessfulReported ==
    [][/\ (\E f \in FileInputs : upload_file(f)) /\ db' # db =>
              \E u \in db'.file_uploads :
                  /\ u \notin db.file_uploads
                  /\ db'.file_uploads = db.file_uploads \cup {u}
                  /\ u.id > db.seq.file_uploads
                  /\ \A v \in db.file_uploads : v.id # u.id
       /\ ReportStep /\ resp'.status = 200 =>
              \E u \in db.file_uploads :
                  /\ u.id = resp'.upload_id
                  /\ u.is_successful = 1
                  /\ \A v \in db.file_uploads :
                         v.is_successful = 1 => v.uploaded_date <= u.uploaded_date]_vars

\* C2 happens: a report is scoped to the later of two successful uploads of the
\* same file although the earlier one holds more fact rows.
C2_Witness ==
    /\ resp.status = 200
    /\ \E u, v \in db.file_uploads :
           /\ u.id = resp.upload_id
           /\ v.id # u.id
           /\ v.filename = u.filename
           /\ u.is_successful = 1 /\ v.is_successful = 1
           /\ v.uploaded_date < u.uploaded_date
           /\ Cardinality(FactRowsOf(db, v.id)) > Cardinality(FactRowsOf(db, u.id))

\* C3: a run of process_excel_file in which a stage raised (a worker of the
\* pool returned an error, or the run ended in the except clause) ends with
\* the upload record at is_successful = 0 with its error_message set, the
\* request answered by the exception (500), and the failed record in the
\* upload history.
C3_RaisedRunIsRecordedAsFailed ==
    [][(/\ run.pc # "idle"
        /\ run'.pc = "idle"
        /\ (run.errors # {} \/ run.pc # "update_upload_success")) =>
          LET history == get_upload_history(db')
          IN  /\ resp'.status = 500
              /\ \E u \in db'.file_uploads :
                     /\ u.id = run.upload_id
                     /\ u.is_successful = 0
                     /\ u.error_message # None
              /\ \E i \in DOMAIN history :
                     /\ history[i].id = run.upload_id
                     /\ ~history[i].is_successful
                     /\ history[i].error_message # None]_vars

\* C4: on a store whose tables are those init_database creates, the DELETE of
\* an existing upload id answers success, and afterwards no fact table holds a
\* row of that upload and its upload record is gone.
C4_DeleteUploadOnInitSchema ==
    [][\A id \in UploadIdInputs :
          (/\ delete_upload(id)
           /\ db.tables = SchemaTables
           /\ \E u \in db.file_uploads : u.id = id) =>
              /\ resp'.status = 200
              /\ FactRowsOf(db', id) = {}
              /\ \A u \in db'.file_uploads : u.id # id]_vars

\* C6: while no upload record has is_successful = 1, every report request is
\* answered 404 and leaves the store as it was.
C6_NoSuccessfulUploadIs404 ==
    [][(ReportStep /\ \A u \in db.file_uploads : u.is_successful # 1) =>
          resp'.status = 404 /\ db' = db]_vars

\* C10: a report request naming a year or a month without an internal id is
\* answered by an error without report data; for the lists of the category-wise
\* and yoy reports, as soon as one element of the list has no id.
C10_UnresolvableYearOrMonthIsError ==
    [][LET IsError == resp'.status >= 400 /\ resp'.used = {}
           NoYear(y) == YearId(db, y) = NoId
           NoMonth(m) == MonthId(m) = NoId
       IN  /\ \A y \in YearInputs, m \in MonthInputs :
                 (/\ \/ get_comparison_sales(y, m)
                     \/ get_comparison_production(y, m)
                     \/ get_sales_by_location_salesman(y, m)
                     \/ get_sales_by_type(y, m)
                  /\ (NoYear(y) \/ NoMonth(m))) => IsError
           /\ \A y \in YearInputs :
                 ((get_mom_growth(y) \/ get_cost_analysis(y)) /\ NoYear(y)) => IsError
           /\ \A ys \in YearListInputs, ms \in MonthListInputs :
                 (/\ \/ get_sales_category_wise(ys, ms)
                     \/ get_production_category_wise(ys, ms)
                  /\ \/ \E i \in DOMAIN ys : NoYear(ParseInt(ys[i]))
                     \/ \E j \in DOMAIN ms : NoMonth(ms[j])) => IsError
           /\ \A ms \in MonthListInputs :
                 (get_yoy_growth(ms) /\ \E j \in DOMAIN ms : NoMonth(ms[j])) => IsError]_vars

\* C5: after an upload deletion that answered success, every product is
\* referenced by a remaining product fact row, every category by a product,
\* and every year by a remaining fact row; and every product that rows of
\* other uploads reference, and every category of such a product, is still
\* there.
C5_DeletionPurgesOrphansKeepsReferenced ==
    [][\A id \in UploadIdInputs :
          (delete_upload(id) /\ resp'.status = 200) =>
              LET year_refs ==
                      {r.year_id : r \in db'.working_days}
                      \cup {r.year_id : r \in db'.budget_projection}
                      \cup {r.year_id : r \in db'.sales_data}
                      \cup {r.year_id : r \in db'.production_data}
                      \cup {r.year_id : r \in db'.sales_by_fpr}
                      \cup {r.year_id : r \in db'.cost_data}
                  kept == {q \in db.products :
                              \E r \in ProductFacts(db) :
                                  r.product_id = q.id /\ r.upload_id # id}
              IN  /\ \A q \in db'.products :
                         \E r \in ProductFacts(db') : r.product_id = q.id
                  /\ \A c \in db'.product_categories :
                         \E q \in db'.products : q.category_id = c.id
                  /\ \A y \in db'.years : y.id \in year_refs
                  /\ kept \subseteq db'.products
                  /\ \A c \in db.product_categories :
                         (\E q \in kept : q.category_id = c.id) =>
                             c \in db'.product_categories]_vars

\* C5 happens: an upload deletion answered success, rows of another upload
\* remain with their product and its category, and a product and a category
\* that were given out are gone.
C5_Witness ==
    /\ resp.op = "delete_upload" /\ resp.status = 200
    /\ db.file_uploads # {}
    /\ \E q \in db.products, c \in db.product_categories :
           /\ q.category_id = c.id
           /\ \E r \in db.production_data : r.product_id = q.id
           /\ ~\E r \in db.sales_data \cup db.budget_projection : r.product_id = q.id
    /\ Cardinality(db.products) < db.seq.products
    /\ Cardinality(db.product_categories) < db.seq.product_categories

\* C7: the DELETE of a category that a product references is answered 409 and
\* changes nothing; the request removes a category only when no product
\* references it.
C7_ReferencedCategoryIsNotDeleted ==
    [][\A c \in CategoryIdInputs :
          delete_product_category(c) =>
              /\ (\E q \in db.products : q.category_id = c) =>
                     resp'.status = 409 /\ db' = db
              /\ db'.product_categories # db.product_categories =>
                     ~\E q \in db.products : q.category_id = c]_vars

\* C7 happens: the DELETE of a category was answered 409 and the category and
\* its product are there.
C7_Witness ==
    /\ resp.op = "delete_product_category" /\ resp.status = 409
    /\ \E c \in db.product_categories, q \in db.products : q.category_id = c.id

\* C8: a product that a row of sales_data, production_data or budget_projection
\* references after a step is not removed by that step; and the DELETE of a
\* referenced product is answered 409 and changes nothing.
C8_ReferencedProductIsNotRemoved ==
    [][/\ \A q \in db.products :
              (\E r \in ProductFacts(db') : r.product_id = q.id) =>
                  \E k \in db'.products : k.id = q.id
       /\ \A id \in ProductIdInputs :
              (delete_product(id) /\ \E r \in ProductFacts(db) : r.product_id = id) =>
                  resp'.status = 409 /\ db' = db]_vars

\* C8 happens: the DELETE of a product was answered 409 while only rows of
\* production_data reference a product of the store.
C8_Witness ==
    /\ resp.op = "delete_product" /\ resp.status = 409
    /\ \E q \in db.products :
           /\ \E r \in db.production_data : r.product_id = q.id
           /\ ~\E r \in db.sales_data \cup db.budget_projection : r.product_id = q.id

\* C9: a create or an update of a category or of a product that would give two
\* categories one name, or two products of one category one name, is answered
\* 409 and changes nothing.
C9_DuplicateIsConflict ==
    [][LET Conflict == resp'.status = 409 /\ db' = db
       IN  /\ \A n \in CategoryNameInputs :
                 (/\ create_product_category(n)
                  /\ \E c \in db.product_categories : c.name = Strip(n)) => Conflict
           /\ \A id \in CategoryIdInputs, n \in CategoryNameInputs :
                 (/\ update_product_category(id, n)
                  /\ \E c \in db.product_categories : c.id = id
                  /\ \E c \in db.product_categories : c.id # id /\ c.name = Strip(n))
                     => Conflict
           /\ \A n \in ProductNameInputs, c \in 0..(MaxCategories + 1) :
                 (/\ create_product(n, c)
                  /\ \E q \in db.products : q.name = Strip(n) /\ q.category_id = c)
                     => Conflict
           /\ \A id \in ProductIdInputs, d \in ProductUpdates :
                 (/\ update_product(id, d)
                  /\ \E q, k \in db.products :
                         /\ q.id = id
                         /\ k.id # id
                         /\ k.name = UpdatedProduct(q, d).name
                         /\ k.category_id = UpdatedProduct(q, d).category_id)
                     => Conflict]_vars

\* C11: in a yoy or mom report, a growth percentage that has a prior period is
\* null exactly when the value of the prior period is 0, and for every other
\* prior value it is (curr - prev) / prev * 100 rounded to 2 decimals.
C11_GrowthIsNullOnlyForZeroPrior ==
    resp.op \in {"yoy-growth", "mom-growth"} =>
        \A e \in resp.body :
            e.has_prev =>
                /\ e.growth.null <=> e.prev = 0
                /\ e.prev # 0 =>
                       e.growth.pct = RoundedHundredths((e.curr - e.prev) * 100, e.prev)

\* The days value the daily averages of a comparison response are to be
\* divided by: that of the working_days row of the response's upload for the
\* period of the entry e, or 27 when the upload has no such row.
DaysOfReport(e) ==
    LET days_rows == {r \in db.working_days :
                         /\ r.upload_id = resp'.upload_id
                         /\ r.year_id = e.year_id
                         /\ r.month_id = e.month_id}
    IN  IF days_rows = {} THEN 27 ELSE (CHOOSE r \in days_rows : TRUE).days

ComparisonStep ==
    /\ ReportStep
    /\ resp'.op \in {"comparison-sales", "comparison-production"}
    /\ resp'.status = 200

\* C12 as stated: every daily average of a comparison report is the summed
\* metric divided by the days of the working_days row of the same upload, year
\* and month, by 27 without such a row, and it is 0 when the days value is 0.
C12_DailyAverageDividesByDays ==
    [][ComparisonStep =>
          \A e \in resp'.body :
              e.value = IF DaysOfReport(e) = 0 THEN 0
                        ELSE RoundedHundredths(e.total, DaysOfReport(e))]_vars

\* C12, amended: every daily average of a comparison report is the summed
\* metric divided by the days of the working_days row of the same upload, year
\* and month when that value is positive, by 27 without such a row, and it is
\* 0 when the days value is 0 or negative.
C12_DailyAverageDividesByPositiveDays ==
    [][ComparisonStep =>
          \A e \in resp'.body :
              e.value = IF DaysOfReport(e) <= 0 THEN 0
                        ELSE RoundedHundredths(e.total, DaysOfReport(e))]_vars

\* C12 happens: a comparison report divided a non-zero sum by the positive
\* days of its own upload while another upload holds another days value for
\* the same year and month.
C12_Witness ==
    /\ resp.op \in {"comparison-sales", "comparison-production"}
    /\ resp.status = 200
    /\ \E e \in resp.body :
           /\ e.total # 0 /\ e.value # 0
           /\ e.days_in_month > 0
           /\ \E r, o \in db.working_days :
                  /\ r.upload_id = resp.upload_id /\ o.upload_id # resp.upload_id
                  /\ r.year_id = e.year_id /\ o.year_id = e.year_id
                  /\ r.month_id = e.month_id /\ o.month_id = e.month_id
                  /\ r.days = e.days_in_month /\ o.days # r.days

RECURSIVE SeqSum(_)
SeqSum(values) == IF values = <<>> THEN 0 ELSE Head(values) + SeqSum(Tail(values))

ProductOf(d, r) == CHOOSE q \in d.products : q.id = r.product_id

MonthNameOf(r) == (CHOOSE m \in months : m.id = r.month_id).name

\* A source row with the month token month_str resolves to the key (year,
\* month, product) of the stored row r.
ResolvesTo(d, month_str, row, r) ==
    /\ parse_month(month_str)[1] = MonthNameOf(r)
    /\ parse_month(month_str)[2] = YearOf(d, r)
    /\ safe_str(row.Products, "") = ProductOf(d, r).name
    /\ safe_str(row.Product_Category, "Uncategorized") = CategoryOf(d, r)

\* The sum of a column over the rows of a 'Data' or 'Production Data' sheet
\* that resolve to the key of r.
SheetSum(d, rows, r, column) ==
    SeqSum([i \in DOMAIN rows |->
               IF ResolvesTo(d, rows[i].Month, rows[i], r)
               THEN safe_float(rows[i][column]) ELSE 0])

\* The same for the projection sheet, whose month columns are its headers.
ProjectionSum(d, rows, r) ==
    SeqSum([i \in DOMAIN rows |->
               SumOf({[h |-> h, n |-> safe_float(rows[i].cells[h])] :
                        h \in {h \in DOMAIN rows[i].cells :
                                  /\ HasQuote25(h) /\ ~HasDot(h)
                                  /\ ResolvesTo(d, h, rows[i], r)}}, "n")])

SalesFields ==
    { <<"qty_budget", "Qty_Budget">>, <<"amount_budget", "Amount_Budget">>,
      <<"qty_actual", "Qty_Actual">>, <<"amount_actual", "Amount_Actual">>,
      <<"qty_liters_budget", "Qty_in_Liters_Budgeted">>,
      <<"qty_liters_actual", "Qty_in_Liters">> }

ProductionFields ==
    { <<"qty_budget", "Qty_Budgeted">>, <<"qty_budget_liters", "Qty_Budgeted_In_Ltrs">>,
      <<"qty_actual", "Qty_Actual">>, <<"qty_actual_liters", "Qty_in_Liters">> }

\* The rows of the running upload in a table after the step.
StoredByRun(table) == {r \in table : r.upload_id = run.upload_id}

SalesSumsStored ==
    \A rows \in AggregationSheets["Data"] :
        worker_sales_data(rows, FALSE) =>
            \A r \in StoredByRun(db'.sales_data) : \A f \in SalesFields :
                r[f[1]] = SheetSum(db', rows, r, f[2])

ProductionSumsStored ==
    \A rows \in AggregationSheets["Production Data"] :
        worker_production_data(rows, FALSE) =>
            \A r \in StoredByRun(db'.production_data) : \A f \in ProductionFields :
                r[f[1]] = SheetSum(db', rows, r, f[2])

ProjectionSumsStored ==
    \A rows \in AggregationSheets["Sales Projection 2025"] :
        ("Sales Projection 2025" \in run.sheets /\ stage_sales_projection(rows, FALSE)) =>
            \A r \in StoredByRun(db'.budget_projection) :
                r.quantity = ProjectionSum(db', rows, r)

\* C13: when a normalizer has stored the rows of a product-keyed sheet
\* (budget_projection, sales_data, production_data), every numeric field of
\* the stored row of a key (year, month, product) is the sum of that field over
\* all rows of the sheet that resolve to the key, in whatever order they come.
C13_StoredFieldsAreSumsOfSourceRows ==
    [][SalesSumsStored /\ ProductionSumsStored /\ ProjectionSumsStored]_vars

ProductKeyedTables == {"budget_projection", "sales_data", "production_data"}

ProductKey == <<"upload_id", "year_id", "month_id", "product_id">>

\* C14: at every moment, so after every ingestion run, a product-keyed fact
\* table (budget_projection, sales_data, production_data) holds at most one
\* row per (upload, year, month, product).
C14_OneRowPerUploadYearMonthProduct ==
    \A table \in ProductKeyedTables : \A r, q \in Rows(db, table) :
        KeyOf(r, ProductKey) = KeyOf(q, ProductKey) => r = q

\* C14 happens: a run that read two sheet rows of one key, with different
\* quantities, has ended and its upload holds the one row of their sums.
C14_Witness ==
    /\ run.pc = "idle"
    /\ resp.op = "upload_file" /\ resp.status = 200
    /\ \E r \in db.sales_data :
           /\ r.upload_id = resp.upload_id
           /\ r.qty_actual = 25 /\ r.amount_actual = 250

\* C15: for every month abbreviation Mon of Jan..Dec and every two-digit year
\* YY of 00..99, parse_month of the token Mon'YY returns the full name of the
\* month and the year 2000 + YY.
C15_ParseMonthOfEveryToken ==
    resp.op = "parse_month" =>
        \A e \in resp.body :
            /\ e.result.found
            /\ e.result.month_name = MONTH_ORDER[e.month_number]
            /\ e.result.year = 2000 + e.yy

\* A string that is exactly a month abbreviation, an apostrophe and two digits.
ExactMonthToken(arg) ==
    /\ arg.t = "str"
    /\ Len(arg.chars) = 6
    /\ \E i \in 1..12 : READER_MONTH_KEYS[i] = capitalize(SubSeq(arg.chars, 1, 3))
    /\ arg.chars[4] = "'"
    /\ IsDigit(arg.chars[5]) /\ IsDigit(arg.chars[6])

\* C16: parse_month_year returns a (month name, year) pair only for a string
\* that is exactly a valid three-letter month abbreviation, an apostrophe and
\* two digits; every other argument (trailing characters, a four-digit year,
\* no apostrophe, an unknown abbreviation, no string) gets no match.
C16_ParseMonthYearMatchesExactTokensOnly ==
    resp.op = "parse_month_year" =>
        \A e \in resp.body : e.result.found => ExactMonthToken(e.arg)

\* The step changes a fact row of upload u, which is marked successful.
ChangesFactRowsOf(u) ==
    u.is_successful = 1 /\ FactRowsOf(db', u.id) # FactRowsOf(db, u.id)

\* The step deletes upload u.
Deletes(u) == \A v \in db'.file_uploads : v.id # u.id

\* The step is a cost upsert (PUT cost-analysis) on upload u, the latest
\* successful one: it changes cost_data and no other table.
UpsertsCostOf(u) ==
    /\ resp'.op = "update-cost-analysis" /\ resp'.status = 200
    /\ resp'.upload_id = u.id /\ u.id = get_latest_upload_id(db)
    /\ \A table \in FactTables \ {"cost_data"} : Rows(db', table) = Rows(db, table)

PendingUpload(u) ==
    /\ u.is_successful = 0 /\ u.error_message = None
    /\ u.sheets_processed = Null /\ u.months_years_processed = Null

\* A finalized upload record: successful with its sheets and periods, or
\* failed with an error text.
SucceededUpload(u) ==
    /\ u.is_successful = 1 /\ u.error_message = None
    /\ u.sheets_processed # Null /\ u.months_years_processed # Null

FailedUpload(u) == u.is_successful = 0 /\ u.error_message # None

\* C18: an upload record is created pending (is_successful = 0) by the step
\* that starts its run, when no fact row carries its id; the step that ends the
\* run finalizes it, to success with sheets and periods or to failure with an
\* error text; no other step changes a field of the record, so it is finalized
\* once and keeps its fields until it is deleted.
C18_UploadRecordLifecycle ==
    [][/\ \A v \in db'.file_uploads :
              (\A u \in db.file_uploads : u.id # v.id) =>
                  /\ PendingUpload(v)
                  /\ run.pc = "idle" /\ run'.pc = "read_all_sheets"
                  /\ run'.upload_id = v.id
                  /\ FactRowsOf(db', v.id) = {}
       /\ \A u \in db.file_uploads, v \in db'.file_uploads :
              (v.id = u.id /\ v # u) =>
                  /\ PendingUpload(u)
                  /\ SucceededUpload(v) \/ FailedUpload(v)
                  /\ run.upload_id = u.id /\ run.pc # "idle" /\ run'.pc = "idle"
                  /\ v.id = u.id /\ v.filename = u.filename
                  /\ v.uploaded_date = u.uploaded_date
       /\ (run.pc # "idle" /\ run'.pc = "idle") =>
              \E v \in db'.file_uploads :
                  /\ v.id = run.upload_id
                  /\ SucceededUpload(v) \/ FailedUpload(v)]_vars

\* C18 happens: a succeeded and a failed upload record stand side by side
\* after a request that came later than both runs.
C18_Witness ==
    /\ run.pc = "idle"
    /\ resp.op \in ReportOps
    /\ \E u, v \in db.file_uploads :
           /\ SucceededUpload(u) /\ json_loads(u.sheets_processed) # <<>>
           /\ json_loads(u.months_years_processed) # <<>>
           /\ FailedUpload(v)

\* C19: a DELETE of an upload id that no upload record carries is answered
\* 404 and leaves every table as it was: upload records, fact tables,
\* products, categories and years.
C19_DeleteOfUnknownUploadIs404 ==
    [][\A upload_id \in UploadIdInputs :
          (/\ \A u \in db.file_uploads : u.id # upload_id
           /\ delete_upload(upload_id)) =>
              resp'.status = 404 /\ db' = db]_vars

\* C19 happens: a DELETE was answered 404 while the store holds an upload
\* with fact rows, products, categories and years.
C19_Witness ==
    /\ resp.op = "delete_upload" /\ resp.status = 404
    /\ \E u \in db.file_uploads : FactRowsOf(db, u.id) # {}
    /\ db.products # {} /\ db.product_categories # {} /\ db.years # {}

\* The step ends an ingestion run with success: it marks upload u successful.
Completes(u) ==
    /\ u.is_successful = 0
    /\ \E v \in db'.file_uploads : v.id = u.id /\ v.is_successful = 1

\* C20: the upload selected as the latest successful one is, among the
\* successful uploads, the one whose run completed last; so in the moment a
\* run completes with success, its upload is the one selected, also when
\* another run that started later has completed before it.
C20_LatestSuccessfulIsLastCompleted ==
    [][\A u \in db.file_uploads :
          Completes(u) => get_latest_upload_id(db') = u.id]_vars

\* C21: under every interleaving of the workers' resolver calls and for any
\* contents of the store before the run, the store holds at most one row per
\* year value, per category name and per product name and category, and every
\* id a call has returned is the id of the one row of the call's key.
C21_ResolversKeepOneRowPerKey ==
    /\ \A call \in 1..3 : \A r, q \in db[ResolverTables[call]] :
           RowKey(call, r) = RowKey(call, q) => r = q
    /\ run.pc = "resolving" =>
           \A t \in ResolverThreads : \A call \in 1..Len(run.workers[t].ids) :
               \E r \in db[ResolverTables[call]] :
                   /\ r.id = run.workers[t].ids[call]
                   /\ RowKey(call, r) = CallKey(run.workers[t], call)

\* C21 happens: two workers have resolved the same row; for each of the three
\* keys one of them inserted the row and the other, which had missed the
\* cache as well, found it by its second look.
C21_Witness ==
    /\ run.pc = "resolving"
    /\ \A t \in ResolverThreads : run.workers[t].pc = "done"
    /\ \E t, o \in ResolverThreads :
           /\ run.workers[t].row = run.workers[o].row
           /\ run.workers[t].ids = run.workers[o].ids
           /\ \A call \in 1..3 :
                  {run.workers[t].how[call], run.workers[o].how[call]} =
                      {"insert", "second look"}

\* A step of another request while the run of `run` is under way.
StepBesideTheRun == run.pc # "idle" /\ run' = run

\* C22: the resolver cache an ingestion run uses is never read, written or
\* reset by another ingestion run: while a run is under way, no step of
\* another request changes the cache, also when two uploads are processed at
\* the same time.
C22_CacheBelongsToOneRun ==
    [][StepBesideTheRun => cache' = cache]_vars

\* The sheets the run has processed so far.
SheetsDone(r) == {r.sheets_processed[i] : i \in DOMAIN r.sheets_processed}

\* The step is one of a fact-sheet worker: a worker returns.
WorkerStep == run.pc = "pool" /\ run'.pc = "pool" /\ run'.pending # run.pending

\* The step processes the cost sheet, or passes it by when the workbook has none.
CostStep == run.pc = "pool" /\ run'.pc = "update_upload_success"

\* The step marks the upload of the run successful.
SuccessStep ==
    /\ run.pc # "idle"
    /\ \E u \in db'.file_uploads : u.id = run.upload_id /\ u.is_successful = 1
    /\ \E u \in db.file_uploads : u.id = run.upload_id /\ u.is_successful = 0

\* C23: in every run both reference-sheet normalizers have completed before
\* a fact-sheet worker runs, the cost sheet is processed only when every
\* fact-sheet worker has returned, and the upload is marked successful only
\* after the cost sheet has been processed.
C23_StagesRunInOrder ==
    [][/\ WorkerStep =>
              /\ run.sheets \cap ReferenceSheets \subseteq SheetsDone(run)
              /\ "Dashboard-1" \notin SheetsDone(run)
       /\ CostStep =>
              /\ run.pending = {}
              /\ run.sheets \cap ReferenceSheets \subseteq SheetsDone(run)
              /\ run.sheets \cap PoolSheets \subseteq SheetsDone(run) \cup run.errors
       /\ SuccessStep =>
              /\ run.pc = "update_upload_success"
              /\ run.pending = {}
              /\ run.sheets \cap {"Dashboard-1"} \subseteq SheetsDone(run)]_vars

\* C23 happens: a run has processed the two reference sheets, then the fact
\* sheet, then the cost sheet, and is about to mark its upload successful.
C23_Witness ==
    /\ run.pc = "update_upload_success"
    /\ run.sheets_processed =
           <<"Day (in Month)", "Sales Projection 2025", "Data", "Dashboard-1">>

\* The rows of the six fact tables.
AllFactRows(d) ==
    d.sales_data \cup d.budget_projection \cup d.working_days
        \cup d.production_data \cup d.sales_by_fpr \cup d.cost_data

\* The step is a deletion request that does not reach its commit.
DeletionFails ==
    \/ \E u \in UploadIdInputs, k \in 0..(DeleteStatements - 1) :
           delete_upload_interrupted(u, k)
    \/ \E u \in UploadIdInputs : delete_upload(u) /\ resp'.status = 500

\* C24: when a statement of the deletion sequence fails, or the request stops
\* before its commit, none of its deletions is persisted; a deletion that
\* commits persists all ten statements; and after any step, a failed deletion
\* included, every fact row carries the upload_id of an upload record that
\* exists.
C24_DeletionIsAllOrNothing ==
    [][/\ DeletionFails => db' = db
       /\ \A u \in UploadIdInputs :
              delete_upload(u) /\ resp'.status = 200 =>
                  db' = Executed(db, u, DeleteStatements)
       /\ \A r \in AllFactRows(db') :
              \E u \in db'.file_uploads : u.id = r.upload_id]_vars

\* C24 happens: a deletion has stopped between its statements on a store
\* that holds the cost table, and two uploads with their fact rows are there.
C24_Witness ==
    /\ resp = Reply("delete_upload", 500)
    /\ "cost_data" \in db.tables
    /\ \A u \in db.file_uploads :
           /\ \E r \in db.working_days : r.upload_id = u.id
           /\ \E r \in db.sales_data \cup db.production_data : r.upload_id = u.id
    /\ Cardinality(db.file_uploads) = 2

\* The rows of a sheet without the rows whose month token is no key of the
\* month map or whose product name is missing or blank.
WithoutSkipped(sheet, rows) ==
    SelectSeq(rows, LAMBDA r : r \notin SkippedRows(sheet))

\* The month columns of the projection sheet without the unparseable one.
ParseableHeaders == <<"Products", "Product Category", "Jul'25", "Jul'25.1">>

\* A normalizer of one of the three sheets stores what it would have stored
\* had the sheet held the other rows only.
SalesSkips(rows) ==
    worker_sales_data(rows, FALSE) =>
        LET c == process_sales_data(db, cache, WithoutSkipped("Data", rows),
                                    run.upload_id)
        IN  /\ c.batch # {}
            /\ db' = [c.db EXCEPT !.sales_data = @ \cup c.batch]

FprSkips(rows) ==
    worker_sales_by_fpr(rows, FALSE) =>
        LET c == process_sales_by_fpr(db, cache, WithoutSkipped("SALES BY FPR", rows),
                                      run.upload_id)
        IN  /\ c.batch # <<>>
            /\ db' = InsertFpr(c.db, c.batch)
            /\ "SALES BY FPR" \in SheetsDone(run')

ProjectionSkips(rows) ==
    stage_sales_projection(rows, FALSE) /\ "Sales Projection 2025" \in run.sheets =>
        LET c == process_sales_projection(db, cache,
                     WithoutSkipped("Sales Projection 2025", rows),
                     ParseableHeaders, run.upload_id)
        IN  /\ c.batch # <<>>
            /\ db'.budget_projection =
                   InsertOrReplace(db.budget_projection, c.batch,
                       <<"upload_id", "year_id", "month_id", "product_id">>)
            /\ db'.products = c.db.products
            /\ db'.years = c.db.years

ProductsOfUpload(d, id) ==
    {q \in d.products :
        \E r \in ProductFacts(d) : r.upload_id = id /\ r.product_id = q.id}

CategoriesOfUpload(d, id) ==
    {c \in d.product_categories :
        \E q \in ProductsOfUpload(d, id) : q.category_id = c.id}

YearsOfUpload(d, id) ==
    {y \in d.years :
        \E r \in AllFactRows(d) : r.upload_id = id /\ r.year_id = y.id}

StoresItsRow(table) ==
    \E r \in db'[table] : r.upload_id = run.upload_id

\* C29: when runs overlap, get_month_id answers with the id of every seeded
\* month while a run is under way, a worker stores the row of its sheet, and
\* a run that is marked successful has a stored fact row for the row of each
\* sheet it processed.
C29_OverlappingRunsDropNoRow ==
    [][/\ run'.pc # "idle" =>
              \A m \in months : get_month_id(cache', m.name) = m.id
       /\ \A rows \in PlainRows("Data") :
              worker_sales_data(rows, FALSE) => StoresItsRow("sales_data")
       /\ \A rows \in PlainRows("Production Data") :
              worker_production_data(rows, FALSE) => StoresItsRow("production_data")
       /\ SuccessStep =>
              /\ "Data" \in SheetsDone(run) => StoresItsRow("sales_data")
              /\ "Production Data" \in SheetsDone(run) =>
                     StoresItsRow("production_data")]_vars

\* C30: in a mom report the growth of a month is computed against the sales
\* amount of the calendar month directly before it (month_number - 1), and
\* it is null when that month has no sales rows in the upload.
C30_GrowthAgainstTheCalendarMonthBefore ==
    (resp.op = "mom-growth" /\ resp.status = 200) =>
        \A e \in resp.body :
            LET before == {b \in resp.body : b.month_number = e.month_number - 1}
            IN  /\ before = {} => e.growth.null
                /\ \A b \in before : e.has_prev /\ e.prev = b.curr
====
